---- MODULE Spec2Model ----
(***************************************************************************)
(* Model of the code-to-flowchart converter: the dispatcher of parser.py   *)
(* and the three renderers python_parser.code_to_flowchart,                *)
(* c_parser.code_to_flowchart and java_parser.parse_java_code.             *)
(*                                                                         *)
(* Texts (statement source, labels, edge labels) are sequences of          *)
(* one-character strings.  A diagram is kept as the sequence of node       *)
(* declarations and the sequence of edges, both in emission order.  Node   *)
(* ids are pairs <<prefix, number>>: <<"n", 3>> is n3, <<"Start", 0>> is   *)
(* the literal id Start.                                                   *)
(***************************************************************************)
EXTENDS Integers, Sequences, FiniteSets, TLC

\* ------------------------------------------------------------------ bounds
\* Largest control tree given to each family's renderer, counted in tree
\* nodes (statements, constructs and switch/match cases).
PyMaxSize == 4
CMaxSize == 3
JMaxSize == 3

\* ------------------------------------------------------------ text helpers
IsSpace(c) == c \in {" ", "\n", "\t", "\r"}

RECURSIVE LStrip(_)
LStrip(s) == IF s # <<>> /\ IsSpace(Head(s)) THEN LStrip(Tail(s)) ELSE s

RECURSIVE RStrip(_)
RStrip(s) ==
    IF s # <<>> /\ IsSpace(s[Len(s)]) THEN RStrip(SubSeq(s, 1, Len(s) - 1)) ELSE s

Strip(s) == RStrip(LStrip(s))

\* s.startswith(p, i) with i a 0-based offset, as in Python
StartsWithAt(s, p, i) ==
    /\ i + Len(p) <= Len(s)
    /\ SubSeq(s, i + 1, i + Len(p)) = p

StartsWith(s, p) == StartsWithAt(s, p, 0)

\* s.replace(c, r) for a single character c and a replacement text r
RECURSIVE ReplaceChar(_, _, _)
ReplaceChar(s, c, r) ==
    IF s = <<>> THEN <<>>
    ELSE (IF Head(s) = c THEN r ELSE <<Head(s)>>) \o ReplaceChar(Tail(s), c, r)

\* first line of a text: s.splitlines()[0]
RECURSIVE FirstLine(_)
FirstLine(s) ==
    IF s = <<>> \/ Head(s) = "\n" THEN <<>> ELSE <<Head(s)>> \o FirstLine(Tail(s))

\* html.escape(s, quote=False)
RECURSIVE HtmlEscape(_)
HtmlEscape(s) ==
    IF s = <<>> THEN <<>>
    ELSE (CASE Head(s) = "&" -> <<"&", "a", "m", "p", ";">>
            [] Head(s) = "<" -> <<"&", "l", "t", ";">>
            [] Head(s) = ">" -> <<"&", "g", "t", ";">>
            [] OTHER -> <<Head(s)>>) \o HtmlEscape(Tail(s))

\* a regex word character \w
IsWordChar(c) ==
    c \in {"a", "b", "c", "d", "e", "f", "g", "h", "i", "j", "k", "l", "m",
           "n", "o", "p", "q", "r", "s", "t", "u", "v", "w", "x", "y", "z",
           "A", "B", "C", "D", "E", "F", "G", "H", "I", "J", "K", "L", "M",
           "N", "O", "P", "Q", "R", "S", "T", "U", "V", "W", "X", "Y", "Z",
           "0", "1", "2", "3", "4", "5", "6", "7", "8", "9", "_"}

\* the 0-based index of the first non-space character of s at or after j
RECURSIVE SkipSpaces(_, _)
SkipSpaces(s, j) ==
    IF j < Len(s) /\ IsSpace(s[j + 1]) THEN SkipSpaces(s, j + 1) ELSE j

\* the 0-based index of the first occurrence of c in s at or after j, Len(s) if none
RECURSIVE IndexOf(_, _, _)
IndexOf(s, c, j) ==
    IF j >= Len(s) THEN Len(s)
    ELSE IF s[j + 1] = c THEN j ELSE IndexOf(s, c, j + 1)

\* s[a:b] with 0-based bounds
Slice(s, a, b) == SubSeq(s, a + 1, b)

\* s.rstrip(c) for one character c
RECURSIVE RStripChar(_, _)
RStripChar(s, c) ==
    IF s # <<>> /\ s[Len(s)] = c THEN RStripChar(SubSeq(s, 1, Len(s) - 1), c) ELSE s

\* s.split(c): the pieces of s between the occurrences of c
RECURSIVE Split(_, _)
Split(s, c) ==
    LET k == IndexOf(s, c, 0)
    IN  IF k = Len(s) THEN <<s>>
        ELSE <<Slice(s, 0, k)>> \o Split(Slice(s, k + 1, Len(s)), c)

\* s.split(): the whitespace-separated words of s
RECURSIVE Words(_)
Words(s) ==
    LET t == LStrip(s)
        RECURSIVE WordEnd(_)
        WordEnd(j) == IF j < Len(t) /\ ~IsSpace(t[j + 1]) THEN WordEnd(j + 1) ELSE j
    IN  IF t = <<>> THEN <<>>
        ELSE <<Slice(t, 0, WordEnd(0))>> \o Words(Slice(t, WordEnd(0), Len(t)))

\* re.sub(r'\s+', ' ', s)
RECURSIVE CollapseSpaces(_)
CollapseSpaces(s) ==
    IF s = <<>> THEN <<>>
    ELSE IF IsSpace(Head(s)) THEN <<" ">> \o CollapseSpaces(LStrip(s))
    ELSE <<Head(s)>> \o CollapseSpaces(Tail(s))

\* ", ".join(parts)
RECURSIVE JoinComma(_)
JoinComma(parts) ==
    IF parts = <<>> THEN <<>>
    ELSE IF Len(parts) = 1 THEN parts[1]
    ELSE parts[1] \o <<",", " ">> \o JoinComma(Tail(parts))

\* ------------------------------------------------------------ diagram ids
Start == <<"Start", 0>>
End == <<"End", 0>>
ErrorId == <<"error", 0>>
None == <<"None", 0>>

\* edge labels
NoLabel == <<>>
LblYes == <<"Y", "e", "s">>
LblNo == <<"N", "o">>
LblTrue == <<"T", "r", "u", "e">>
LblFalse == <<"F", "a", "l", "s", "e">>
LblCase == <<"c", "a", "s", "e">>

\* fixed node labels
StartLabel == <<"S", "t", "a", "r", "t">>
EndLabel == <<"E", "n", "d">>
NoAction == <<"N", "o", " ", "a", "c", "t", "i", "o", "n">>
EmptyLoopBody == <<"E", "m", "p", "t", "y", " ", "L", "o", "o", "p", " ", "B", "o", "d", "y">>
MergeLabel == <<"M", "e", "r", "g", "e">>
Blank == <<" ">>

Node(id, label, shape) == [id |-> id, label |-> label, shape |-> shape]
Edge(a, b, l) == [from |-> a, to |-> b, label |-> l]

\* the diagram under construction: node declarations, edges, id counter
EmptyDiagram == [nodes |-> <<>>, edges |-> <<>>, node_counter |-> 0]

AddNode(R, id, label, shape) == [R EXCEPT !.nodes = Append(@, Node(id, label, shape))]
AddEdge(R, a, b, l) == [R EXCEPT !.edges = Append(@, Edge(a, b, l))]
Bump(R) == [R EXCEPT !.node_counter = @ + 1]

\* ===================================================== python_parser.py
\* A Python statement as ast.parse yields it.  cls is the node class; src is
\* ast.unparse(node); call says what handle_expr's isinstance tests find:
\* "print" (print with one string constant, arg its value), "input" and
\* "wrapped_input" (x = input('p') and x = f(input('p')), arg the prompt,
\* target the assigned name, conv the wrapping function), "call" (any other
\* call expression) or "none".
PyNode(cls, src, call, arg, target, conv, test, body, orelse, cases) ==
    [cls |-> cls, src |-> src, call |-> call, arg |-> arg, target |-> target,
     conv |-> conv, test |-> test, body |-> body, orelse |-> orelse, cases |-> cases]

PyLeaf(cls, src, call, arg, target, conv) ==
    PyNode(cls, src, call, arg, target, conv, <<>>, <<>>, <<>>, <<>>)

RECURSIVE PyBodySrc(_)
PyBodySrc(body) ==
    IF body = <<>> THEN <<>>
    ELSE <<"\n", " ">> \o Head(body).src \o PyBodySrc(Tail(body))

PyIf(test, body, orelse) ==
    PyNode("If", <<"i", "f", " ">> \o test \o <<":">> \o PyBodySrc(body),
           "none", <<>>, <<>>, <<>>, test, body, orelse, <<>>)

PyWhile(test, body) ==
    PyNode("While", <<"w", "h", "i", "l", "e", " ">> \o test \o <<":">> \o PyBodySrc(body),
           "none", <<>>, <<>>, <<>>, test, body, <<>>, <<>>)

\* for <target> in <test>: the iterable is kept in the field test
PyFor(target, iter, body) ==
    PyNode("For", <<"f", "o", "r", " ">> \o target \o <<" ", "i", "n", " ">> \o iter
                  \o <<":">> \o PyBodySrc(body),
           "none", <<>>, target, <<>>, iter, body, <<>>, <<>>)

PyCase(pattern, body) == [pattern |-> pattern, body |-> body]

PyMatch(subject, cases) ==
    PyNode("Match", <<"m", "a", "t", "c", "h", " ">> \o subject \o <<":">>,
           "none", <<>>, <<>>, <<>>, subject, <<>>, <<>>, cases)

\* safe_label
safe_label(text) == ReplaceChar(HtmlEscape(text), "\n", <<" ">>)

\* the fallback label of handle_expr: first line of the source, cut to 50
PyMaxLabel == 50
PyKeep == 47
Ellipsis == <<".", ".", ".">>

PyFallbackLabel(node) ==
    LET label_text == FirstLine(Strip(node.src))
    IN  IF Len(label_text) > PyMaxLabel
        THEN SubSeq(label_text, 1, PyKeep) \o Ellipsis
        ELSE label_text

\* "return shape_type.format(safe_label(label_text))"
PyFormat(lt) == [label |-> safe_label(lt.label), shape |-> lt.shape]

\* handle_expr: the label and the shape of one statement
handle_expr(node) ==
    PyFormat(IF node.cls = "Expr" /\ node.call = "print"
             THEN [label |-> <<"O", "u", "t", "p", "u", "t", ":", " ">> \o node.arg,
                   shape |-> "io"]
             ELSE IF node.cls = "Assign"
             THEN IF node.call \in {"input", "wrapped_input"}
                  THEN [label |-> <<"I", "n", "p", "u", "t", " ">> \o node.target
                                  \o <<":", " ">> \o node.arg
                                  \o (IF node.call = "wrapped_input"
                                      THEN <<" ", "(", "a", "s", " ">> \o node.conv \o <<")">>
                                      ELSE <<>>),
                        shape |-> "io"]
                  ELSE [label |-> PyFallbackLabel(node), shape |-> "rect"]
             ELSE IF node.cls = "Expr" /\ node.call = "call"
             THEN [label |-> PyFallbackLabel(node), shape |-> "io"]
             ELSE [label |-> PyFallbackLabel(node), shape |-> "rect"])

\* get_id: the id the next call returns
PyNextId(R) == <<"n", R.node_counter + 1>>

\* "sid = get_id()" and the lines that declare the node h under sid and draw
\* the edge from -- edge_label --> sid
PyEmit(R, from, edge_label, h) ==
    AddEdge(AddNode(Bump(R), PyNextId(R), h.label, h.shape), from, PyNextId(R), edge_label)

\* "for stmt in stmts: sid = get_id(); lines.append(from -- label --> sid[...])":
\* the first edge carries label first, the later ones label rest
RECURSIVE PyChain(_, _, _, _, _)
PyChain(R, stmts, from, first, rest) ==
    IF stmts = <<>> THEN [R |-> R, last |-> from]
    ELSE PyChain(PyEmit(R, from, first, handle_expr(Head(stmts))),
                 Tail(stmts), PyNextId(R), rest, rest)

\* the node that stands for an empty body: [[No action]], [[Empty Loop Body]]
PyPlaceholder(R, from, label, edge_label) ==
    [R |-> PyEmit(R, from, edge_label, [label |-> label, shape |-> "subroutine"]),
     last |-> PyNextId(R)]

\* a decision node and the edge current_last_node --> it
PyDecision(R, label, current_last_node) ==
    PyEmit(R, current_last_node, NoLabel, [label |-> label, shape |-> "decision"])

\* "branch_ends.append(...)": the diagram after a branch b and the ends so far
BranchEnd(branch_ends, b) == [R |-> b.R, branch_ends |-> Append(branch_ends, b.last)]

\* "for branch_end in branch_ends: lines.append(branch_end --> target)"
RECURSIVE PyConnectAll(_, _, _)
PyConnectAll(R, branch_ends, target) ==
    IF branch_ends = <<>> THEN R
    ELSE PyConnectAll(AddEdge(R, Head(branch_ends), target, NoLabel),
                      Tail(branch_ends), target)

\* the merge logic closing handle_if_elif_else and the match statement: the
\* branch ends join End, or a fresh merge id that no line declares
PyMerge(b, is_last) ==
    IF is_last
    THEN [R |-> PyConnectAll(b.R, b.branch_ends, End), last |-> End]
    ELSE [R |-> PyConnectAll(Bump(b.R), b.branch_ends, PyNextId(b.R)),
          last |-> PyNextId(b.R)]

RECURSIVE handle_if_elif_else(_, _, _, _)

\* the No branch of handle_if_elif_else: an elif recurses, an else is a chain
\* under No, a missing else a placeholder; b holds the Yes branch
PyElse(b, if_node, cond_id, is_last) ==
    BranchEnd(b.branch_ends,
              IF if_node.orelse # <<>>
              THEN IF Len(if_node.orelse) = 1 /\ if_node.orelse[1].cls = "If"
                   THEN handle_if_elif_else(b.R, if_node.orelse[1], cond_id, is_last)
                   ELSE PyChain(b.R, if_node.orelse, cond_id, LblNo, LblNo)
              ELSE PyPlaceholder(b.R, cond_id, NoAction, LblNo))

handle_if_elif_else(R, if_node, current_last_node, is_last) ==
    LET cond_id == PyNextId(R)
        cond_lbl == safe_label(Strip(if_node.test))
    IN  PyMerge(PyElse(BranchEnd(<<>>,
                                 IF if_node.body # <<>>
                                 THEN PyChain(PyDecision(R, cond_lbl, current_last_node),
                                              if_node.body, cond_id, LblYes, LblYes)
                                 ELSE PyPlaceholder(PyDecision(R, cond_lbl, current_last_node),
                                                    cond_id, NoAction, LblYes)),
                       if_node, cond_id, is_last),
                is_last)

\* the end of handle_loop: the back-edge from the body b, the exit id that no
\* line declares, the No edge into it, and the edge to End of a last loop
PyLoopExit(b, loop_condition_id, is_last) ==
    LET loop_exit_node_id == PyNextId(b.R)
        R3 == AddEdge(Bump(AddEdge(b.R, b.last, loop_condition_id, NoLabel)),
                      loop_condition_id, loop_exit_node_id, LblNo)
    IN  IF is_last
        THEN [R |-> AddEdge(R3, loop_exit_node_id, End, NoLabel), last |-> End]
        ELSE [R |-> R3, last |-> loop_exit_node_id]

handle_loop(R, loop_node, current_last_node, is_last) ==
    LET loop_condition_id == PyNextId(R)
        loop_cond_label ==
            IF loop_node.cls = "For"
            THEN <<"F", "o", "r", " ">> \o Strip(loop_node.target)
                 \o <<" ", "i", "n", " ">> \o Strip(loop_node.test)
            ELSE Strip(loop_node.test)
    IN  PyLoopExit(IF loop_node.body # <<>>
                   THEN PyChain(PyDecision(R, safe_label(loop_cond_label), current_last_node),
                                loop_node.body, loop_condition_id, LblYes, NoLabel)
                   ELSE PyPlaceholder(PyDecision(R, safe_label(loop_cond_label),
                                                 current_last_node),
                                      loop_condition_id, EmptyLoopBody, LblYes),
                   loop_condition_id, is_last)

\* the cases of a match statement, in order; b holds the diagram and branch_ends
RECURSIVE PyCases(_, _, _)
PyCases(b, cases, match_id) ==
    IF cases = <<>> THEN b
    ELSE LET case_lbl == safe_label(<<"c", "a", "s", "e", " ">> \o Strip(Head(cases).pattern))
         IN  PyCases(BranchEnd(b.branch_ends,
                               IF Head(cases).body # <<>>
                               THEN PyChain(b.R, Head(cases).body, match_id, case_lbl, NoLabel)
                               ELSE PyPlaceholder(b.R, match_id, NoAction, case_lbl)),
                     Tail(cases), match_id)

PyMatchStmt(R, node, last, is_last) ==
    PyMerge(PyCases([R |-> PyDecision(R, <<"M", "a", "t", "c", "h", " ">>
                                         \o safe_label(Strip(node.test)), last),
                     branch_ends |-> <<>>],
                    node.cases, PyNextId(R)),
            is_last)

\* one iteration of "for i, node in enumerate(tree.body)"
PyTopLevel(R, node, last, is_last) ==
    CASE node.cls = "If" -> handle_if_elif_else(R, node, last, is_last)
      [] node.cls = "Match" -> PyMatchStmt(R, node, last, is_last)
      [] node.cls \in {"For", "While"} -> handle_loop(R, node, last, is_last)
      [] OTHER -> [R |-> PyEmit(R, last, NoLabel, handle_expr(node)), last |-> PyNextId(R)]

\* ------------------------------------------------- Python inputs (bounded)
PyAssign == PyLeaf("Assign", <<"x", " ", "=", " ", "1">>, "none", <<>>, <<>>, <<>>)
PyPrint == PyLeaf("Expr", <<"p", "r", "i", "n", "t", "(", "'", "h", "'", ")">>,
                  "print", <<"h">>, <<>>, <<>>)
PyReturn == PyLeaf("Return", <<"r", "e", "t", "u", "r", "n", " ", "x">>, "none", <<>>, <<>>, <<>>)
PyLeaves == {PyAssign, PyPrint, PyReturn}

Digit(k) == <<"0", "1", "2", "3", "4", "5", "6", "7", "8", "9">>[(k % 10) + 1]

\* PySeqs(n): the statement lists of exactly n tree nodes; PyItems(k): the
\* statements of exactly k tree nodes; PyCaseSeqs(n, idx): the case lists of
\* exactly n tree nodes whose first case has the pattern idx.  Every body is
\* non-empty, as the Python grammar requires.
RECURSIVE PySeqs(_), PyItems(_), PyCaseSeqs(_, _)
PySeqs(n) ==
    IF n = 0 THEN {<<>>}
    ELSE UNION {{<<it>> \o rest : it \in PyItems(k), rest \in PySeqs(n - k)} : k \in 1..n}

PyItems(k) ==
    IF k = 1 THEN PyLeaves
    ELSE UNION {{PyIf(<<"a">>, b, e) : b \in PySeqs(a), e \in PySeqs(k - 1 - a)} : a \in 1..(k - 1)}
         \cup {PyWhile(<<"a">>, b) : b \in PySeqs(k - 1)}
         \cup {PyFor(<<"i">>, <<"r">>, b) : b \in PySeqs(k - 1)}
         \cup {PyMatch(<<"x">>, cs) : cs \in PyCaseSeqs(k - 1, 1)}

PyCaseSeqs(n, idx) ==
    IF n < 2 THEN {}
    ELSE {<<PyCase(<<Digit(idx)>>, b)>> : b \in PySeqs(n - 1)}
         \cup UNION {{<<PyCase(<<Digit(idx)>>, b)>> \o rest :
                         b \in PySeqs(a), rest \in PyCaseSeqs(n - 1 - a, idx + 1)}
                     : a \in 1..(n - 3)}

PyProgs == UNION {PySeqs(n) : n \in 0..PyMaxSize}

\* =========================================================== c_parser.py
\* A node of the tree _parse_block builds: ('stmt', text), ('if', cond, then,
\* else), ('for' | 'while' | 'do', header, body), ('switch', expr, cases).
\* hasElse is FALSE where the tuple holds None for the else list.
CNode(type, text, then, hasElse, els, body, cases) ==
    [type |-> type, text |-> text, then |-> then, hasElse |-> hasElse, els |-> els,
     body |-> body, cases |-> cases]

CStmtNode(text) == CNode("stmt", text, <<>>, FALSE, <<>>, <<>>, <<>>)
CIf(cond, then, hasElse, els) == CNode("if", cond, then, hasElse, els, <<>>, <<>>)
CLoop(type, header, body) == CNode(type, header, <<>>, FALSE, <<>>, body, <<>>)
CCase(label, body) == [label |-> label, body |-> body]
CSwitch(expr, cases) == CNode("switch", expr, <<>>, FALSE, <<>>, <<>>, cases)

\* ---------------------------------------------------- the text readers
\* what a reader returns: the text read and the index just past it
Read(text, next) == [text |-> text, next |-> next]

\* _read_stmt: the "while j < n" loop with the scan index j and the count
\* depth of open parentheses; the statement ends at the first ';' met at
\* depth zero, or at the end of the text
RECURSIVE ReadStmtLoop(_, _, _, _)
ReadStmtLoop(s, i, j, depth) ==
    IF j >= Len(s) THEN Read(Strip(Slice(s, i, j)), j)
    ELSE IF s[j + 1] = "(" THEN ReadStmtLoop(s, i, j + 1, depth + 1)
    ELSE IF s[j + 1] = ")"
    THEN ReadStmtLoop(s, i, j + 1, IF depth > 0 THEN depth - 1 ELSE depth)
    ELSE IF s[j + 1] = ";" /\ depth = 0 THEN Read(Strip(Slice(s, i, j + 1)), j + 1)
    ELSE ReadStmtLoop(s, i, j + 1, depth)

_read_stmt(s, i) == ReadStmtLoop(s, i, i, 0)

\* the closer of an opening delimiter
CloserOf(open_ch) == IF open_ch = "(" THEN ")" ELSE "}"

\* _read_block without the nesting count: the first closer ends the block
RECURSIVE ReadBlockLoopFlat(_, _, _)
ReadBlockLoopFlat(s, open_ch, st) ==
    IF st.j >= Len(s) THEN Read(st.buf, st.j)
    ELSE IF st.depth = 0
    THEN ReadBlockLoopFlat(s, open_ch, [j |-> st.j + 1, depth |-> 1, buf |-> st.buf])
    ELSE IF s[st.j + 1] = CloserOf(open_ch) THEN Read(st.buf, st.j + 1)
    ELSE ReadBlockLoopFlat(s, open_ch,
                           [j |-> st.j + 1, depth |-> 1,
                            buf |-> Append(st.buf, s[st.j + 1])])

\* _read_block giving up at the end of the text: what was read is dropped
RECURSIVE ReadBlockLoopDrop(_, _, _)
ReadBlockLoopDrop(s, open_ch, st) ==
    IF st.j >= Len(s) THEN Read(<<>>, st.j)
    ELSE IF s[st.j + 1] = open_ch
    THEN ReadBlockLoopDrop(s, open_ch,
                           [j |-> st.j + 1, depth |-> st.depth + 1,
                            buf |-> IF st.depth = 0 THEN st.buf ELSE Append(st.buf, open_ch)])
    ELSE IF s[st.j + 1] = CloserOf(open_ch) /\ st.depth = 1 THEN Read(st.buf, st.j + 1)
    ELSE ReadBlockLoopDrop(s, open_ch,
                           [j |-> st.j + 1,
                            depth |-> IF s[st.j + 1] = CloserOf(open_ch)
                                      THEN st.depth - 1 ELSE st.depth,
                            buf |-> Append(st.buf, s[st.j + 1])])

\* _read_block: the "while j < n" loop; st holds the scan index j, the
\* nesting depth of the opener's delimiter type and the characters kept in
\* buf.  The opener at depth 0 and the closer that returns to depth 0 are
\* not kept.
RECURSIVE ReadBlockLoop(_, _, _)
ReadBlockLoop(s, open_ch, st) ==
    IF st.j >= Len(s) THEN Read(st.buf, st.j)
    ELSE IF s[st.j + 1] = open_ch
    THEN ReadBlockLoop(s, open_ch,
                       [j |-> st.j + 1, depth |-> st.depth + 1,
                        buf |-> IF st.depth = 0 THEN st.buf ELSE Append(st.buf, open_ch)])
    ELSE IF s[st.j + 1] = CloserOf(open_ch) /\ st.depth = 1 THEN Read(st.buf, st.j + 1)
    ELSE ReadBlockLoop(s, open_ch,
                       [j |-> st.j + 1,
                        depth |-> IF s[st.j + 1] = CloserOf(open_ch)
                                  THEN st.depth - 1 ELSE st.depth,
                        buf |-> Append(st.buf, s[st.j + 1])])

\* called with s[i] an opening '(' or '{'
_read_block(s, i) ==
    ReadBlockLoop(s, s[i + 1], [j |-> i, depth |-> 0, buf |-> <<>>])

\* ------------------------------------------------ the control-tree builder
\* what one step of the builder yields: the nodes built, the index the scan
\* continues at, and the recursive calls made on the way, each logged as the
\* pair <<length of the caller's text, length of the text passed>>
Item(nodes, next, calls) == [nodes |-> nodes, next |-> next, calls |-> calls]

\* s.startswith(kw, i) and (i+len(kw)==n or not s[i+len(kw)].isalnum() and
\* s[i+len(kw)] != '_')
CKeywordAt(s, kw, i) ==
    /\ StartsWithAt(s, kw, i)
    /\ (i + Len(kw) = Len(s) \/ ~IsWordChar(s[i + Len(kw) + 1]))

\* a regex word \bw\b at the 0-based index p of s
WordAt(s, w, p) ==
    /\ StartsWithAt(s, w, p)
    /\ (p = 0 \/ ~IsWordChar(s[p]))
    /\ (p + Len(w) = Len(s) \/ ~IsWordChar(s[p + Len(w) + 1]))

\* "if i < n and s[i] == '(': cond, i = _read_block(s, i)", else the empty
\* text and i
CParen(s, i) ==
    IF i < Len(s) /\ s[i + 1] = "(" THEN _read_block(s, i) ELSE Read(<<>>, i)

\* re.split(r'(?=(?:\bcase\b|\bdefault\b))', body): the pieces of body cut
\* before every word case or default, from the cut at index a on
RECURSIVE CCaseParts(_, _)
CCaseParts(body, a) ==
    LET cuts == {p \in (a + 1)..(Len(body) - 1) :
                    WordAt(body, <<"c", "a", "s", "e">>, p) \/ WordAt(body, <<"d", "e", "f", "a", "u", "l", "t">>, p)}
    IN  IF cuts = {} THEN <<Slice(body, a, Len(body))>>
        ELSE <<Slice(body, a, CHOOSE p \in cuts : \A q \in cuts : p <= q)>>
             \o CCaseParts(body, CHOOSE p \in cuts : \A q \in cuts : p <= q)

\* re.match(r'^(case\s+[^:]+|default)\s*:\s*(.*)$', part): the index of the
\* colon that ends the label, -1 if the part does not match
CCaseColon(part) ==
    IF /\ StartsWith(part, <<"c", "a", "s", "e">>)
       /\ Len(part) > 4
       /\ IsSpace(part[5])
       /\ IndexOf(part, ":", 0) < Len(part)
       /\ IndexOf(part, ":", 0) >= 6
    THEN IndexOf(part, ":", 0)
    ELSE IF /\ StartsWith(part, <<"d", "e", "f", "a", "u", "l", "t">>)
            /\ SkipSpaces(part, 7) < Len(part)
            /\ part[SkipSpaces(part, 7) + 1] = ":"
    THEN SkipSpaces(part, 7)
    ELSE -1

\* re.split(r'\bbreak\s*;', cbody, maxsplit=1)[0]
CBeforeBreak(cbody) ==
    LET hits == {p \in 0..(Len(cbody) - 1) :
                    /\ StartsWithAt(cbody, <<"b", "r", "e", "a", "k">>, p)
                    /\ (p = 0 \/ ~IsWordChar(cbody[p]))
                    /\ SkipSpaces(cbody, p + 5) < Len(cbody)
                    /\ cbody[SkipSpaces(cbody, p + 5) + 1] = ";"}
    IN  IF hits = {} THEN cbody
        ELSE Slice(cbody, 0, CHOOSE p \in hits : \A q \in hits : p <= q)

RECURSIVE CParseLoop(_, _, _, _), CItemAt(_, _), CBody(_, _, _), CCasesOf(_, _, _)

\* _parse_block(s): the text is stripped, then scanned from index 0
_parse_block(s) == CParseLoop(Strip(s), 0, <<>>, {})

\* a recursive call _parse_block(t) made while the caller scans a text of
\* length n: the block built, at the index next of the caller's scan
CRecurse(n, t, next) ==
    [CParseLoop(Strip(t), 0, <<>>, {<<n, Len(t)>>}) EXCEPT !.next = next]

\* the "while True" loop: skip whitespace, stop at the end of the text, else
\* build the item at the scan position and go on after it
CParseLoop(s, i, nodes, calls) ==
    IF SkipSpaces(s, i) >= Len(s) THEN Item(nodes, SkipSpaces(s, i), calls)
    ELSE \* one iteration, then the next
         LET r == CItemAt(s, SkipSpaces(s, i))
         IN  CParseLoop(s, r.next, nodes \o r.nodes, calls \cup r.calls)

\* a body: a braced block parsed recursively, or a single statement, which
\* an if parses recursively when its text ends with '}' (reparse)
CBody(s, i, reparse) ==
    IF i < Len(s) /\ s[i + 1] = "{"
    THEN CRecurse(Len(s), _read_block(s, i).text, _read_block(s, i).next)
    ELSE IF /\ reparse
            /\ _read_stmt(s, i).text # <<>>
            /\ _read_stmt(s, i).text[Len(_read_stmt(s, i).text)] = "}"
    THEN CRecurse(Len(s), _read_stmt(s, i).text, _read_stmt(s, i).next)
    ELSE Item(<<CStmtNode(_read_stmt(s, i).text)>>, _read_stmt(s, i).next, {})

\* an if, from the index c.next just past its condition c: the then-body, and
\* the else-body when the keyword else follows
CIfFrom(s, c) ==
    LET t == CBody(s, SkipSpaces(s, c.next), TRUE)
        k == SkipSpaces(s, t.next)
        e == CBody(s, SkipSpaces(s, k + 4), TRUE)
    IN  IF CKeywordAt(s, <<"e", "l", "s", "e">>, k)
        THEN Item(<<CIf(Strip(c.text), t.nodes, TRUE, e.nodes)>>, e.next,
                  t.calls \cup e.calls)
        ELSE Item(<<CIf(Strip(c.text), t.nodes, FALSE, <<>>)>>, k, t.calls)

\* a for or while, from the index just past its header c: a braced body is
\* parsed recursively, a single statement is kept as its text
CLoopFrom(s, type, c) ==
    LET b == CBody(s, SkipSpaces(s, c.next), FALSE)
    IN  Item(<<CLoop(type, c.text, b.nodes)>>, b.next, b.calls)

\* a do, from the index b.next just past its body b: "while", its condition
\* and one ';' are consumed when the text goes on with the letters while
CDoFrom(s, b) ==
    LET k == SkipSpaces(s, b.next)
        c == CParen(s, SkipSpaces(s, k + 5))
    IN  IF StartsWithAt(s, <<"w", "h", "i", "l", "e">>, k)
        THEN Item(<<CLoop("do", c.text, b.nodes)>>,
                  IF c.next < Len(s) /\ s[c.next + 1] = ";" THEN c.next + 1 ELSE c.next,
                  b.calls)
        ELSE Item(<<CLoop("do", <<>>, b.nodes)>>, k, b.calls)

\* "for part in parts": a part that matches gives the case (label, block of
\* its text before the first break); n is the length of the caller's text
CCasesOf(n, parts, k) ==
    IF k > Len(parts) THEN Item(<<>>, 0, {})
    ELSE LET part == Strip(parts[k])
             colon == CCaseColon(part)
             p == CRecurse(n, CBeforeBreak(Strip(Slice(part, colon + 1, Len(part)))), 0)
             rest == CCasesOf(n, parts, k + 1)
         IN  IF colon < 0 THEN rest
             ELSE Item(<<CCase(Strip(Slice(part, 0, colon)), p.nodes)>> \o rest.nodes, 0,
                       p.calls \cup rest.calls)

\* a switch, from the index just past its selector c
CSwitchFrom(s, c) ==
    LET k == SkipSpaces(s, c.next)
        body == _read_block(s, k)
        cases == CCasesOf(Len(s), CCaseParts(body.text, 0), 1)
    IN  IF k < Len(s) /\ s[k + 1] = "{"
        THEN Item(<<CSwitch(c.text, cases.nodes)>>, body.next, cases.calls)
        ELSE Item(<<CSwitch(c.text, <<>>)>>, k, {})

\* one iteration of the loop at the non-space index i < Len(s): a keyword
\* followed by a non-identifier character opens its construct, anything else
\* is a statement read up to its ';'
CItemAt(s, i) ==
    IF CKeywordAt(s, <<"i", "f">>, i) THEN CIfFrom(s, CParen(s, SkipSpaces(s, i + 2)))
    ELSE IF CKeywordAt(s, <<"f", "o", "r">>, i)
    THEN CLoopFrom(s, "for", CParen(s, SkipSpaces(s, i + 3)))
    ELSE IF CKeywordAt(s, <<"w", "h", "i", "l", "e">>, i)
    THEN CLoopFrom(s, "while", CParen(s, SkipSpaces(s, i + 5)))
    ELSE IF CKeywordAt(s, <<"d", "o">>, i)
    THEN CDoFrom(s, CBody(s, SkipSpaces(s, i + 2), FALSE))
    ELSE IF CKeywordAt(s, <<"s", "w", "i", "t", "c", "h">>, i)
    THEN CSwitchFrom(s, CParen(s, SkipSpaces(s, i + 6)))
    ELSE Item(IF _read_stmt(s, i).text # <<>>
              THEN <<CStmtNode(Strip(_read_stmt(s, i).text))>> ELSE <<>>,
              _read_stmt(s, i).next, {})

\* _clean_label
_clean_label(s) ==
    HtmlEscape(CollapseSpaces(Strip(ReplaceChar(ReplaceChar(s, "\"", <<>>), "'", <<>>))))

\* the declaration prefix (?:unsigned\s+|signed\s+)?\s*(?:short|...|size_t)\b
\* matched at the start of s: the 0-based index just past the type word, or -1
CTypeWords == {<<"s", "h", "o", "r", "t">>, <<"l", "o", "n", "g">>, <<"i", "n", "t">>,
               <<"c", "h", "a", "r">>, <<"f", "l", "o", "a", "t">>,
               <<"d", "o", "u", "b", "l", "e">>, <<"s", "i", "z", "e", "_", "t">>}
Unsigned == <<"u", "n", "s", "i", "g", "n", "e", "d">>
Signed == <<"s", "i", "g", "n", "e", "d">>

CTypeAt(s, j) ==
    LET hits == {w \in CTypeWords :
                    /\ StartsWithAt(s, w, j)
                    /\ (j + Len(w) = Len(s) \/ ~IsWordChar(s[j + Len(w) + 1]))}
    IN  IF hits = {} THEN -1 ELSE j + Len(CHOOSE w \in hits : TRUE)

CDeclPrefix(s) ==
    LET signLen == IF StartsWith(s, Unsigned) THEN Len(Unsigned)
                   ELSE IF StartsWith(s, Signed) THEN Len(Signed) ELSE 0
        withSign == IF signLen > 0 /\ signLen < Len(s) /\ IsSpace(s[signLen + 1])
                    THEN CTypeAt(s, SkipSpaces(s, signLen)) ELSE -1
    IN  IF withSign >= 0 THEN withSign ELSE CTypeAt(s, SkipSpaces(s, 0))

\* re.sub(r'\[.*\]', '', p): drop the text from the first '[' to the last ']'
\* that follows it on the same line
CDropBrackets(p) ==
    LET a == IndexOf(p, "[", 0)
        lineEnd == IndexOf(p, "\n", a)
        closers == {q \in a..(lineEnd - 1) : p[q + 1] = "]"}
        b == CHOOSE q \in closers : \A r \in closers : r <= q
    IN  IF a = Len(p) \/ closers = {} THEN p
        ELSE Slice(p, 0, a) \o Slice(p, b + 1, Len(p))

\* the name declared by one comma-separated part of a declaration, <<>> if none
CDeclName(part) ==
    LET p1 == Strip(Split(part, "=")[1])
        p2 == Strip(ReplaceChar(p1, "*", <<" ">>))
        p3 == Strip(CDropBrackets(p2))
    IN  IF p3 = <<>> THEN <<>> ELSE Words(p3)[Len(Words(p3))]

RECURSIVE CDeclNames(_)
CDeclNames(parts) ==
    IF parts = <<>> THEN <<>>
    ELSE LET p == Strip(Head(parts))
         IN  (IF p # <<>> /\ CDeclName(p) # <<>> THEN <<CDeclName(p)>> ELSE <<>>)
             \o CDeclNames(Tail(parts))

\* _extract_var_names
_extract_var_names(decl) ==
    LET d == RStripChar(Strip(decl), ";")
        k == CDeclPrefix(d)
        rest == Slice(d, k, Len(d))
    IN  IF k < 0 \/ IndexOf(rest, "\n", 0) < Len(rest) THEN <<>>
        ELSE CDeclNames(Split(Strip(rest), ","))

\* re.search(r'printf\s*\(\s*"([^"]*)"', s): the payload of the leftmost
\* match, as [found, text]
Printf == <<"p", "r", "i", "n", "t", "f">>
Scanf == <<"s", "c", "a", "n", "f">>

CPrintfAt(s, p) ==
    LET a == SkipSpaces(s, p + Len(Printf))
        b == SkipSpaces(s, a + 1)
        q == IndexOf(s, "\"", b + 1)
    IN  IF /\ StartsWithAt(s, Printf, p)
           /\ a < Len(s) /\ s[a + 1] = "("
           /\ b < Len(s) /\ s[b + 1] = "\""
           /\ q < Len(s)
        THEN [found |-> TRUE, text |-> Slice(s, b + 1, q)]
        ELSE [found |-> FALSE, text |-> <<>>]

CPrintfSearch(s) ==
    LET hits == {p \in 0..Len(s) : CPrintfAt(s, p).found}
    IN  IF hits = {} THEN [found |-> FALSE, text |-> <<>>]
        ELSE CPrintfAt(s, CHOOSE p \in hits : \A r \in hits : p <= r)

\* re.search(r'scanf\s*\([^,]+,\s*(.+)\)', s): group 1 of the leftmost match
CScanfAt(s, p) ==
    LET a == SkipSpaces(s, p + Len(Scanf))
        c == IndexOf(s, ",", a + 1)
        t == SkipSpaces(s, c + 1)
        \* (start, close) pairs: the group s[start:close] is non-empty, holds no
        \* newline, and is followed by ')'
        pairs == {pr \in ((c + 1)..t) \X ((c + 2)..(Len(s) - 1)) :
                     /\ pr[1] < pr[2]
                     /\ s[pr[2] + 1] = ")"
                     /\ \A k \in pr[1]..(pr[2] - 1) : s[k + 1] # "\n"}
        best == CHOOSE pr \in pairs :
                    \A o \in pairs : o[1] < pr[1] \/ (o[1] = pr[1] /\ o[2] <= pr[2])
    IN  IF /\ StartsWithAt(s, Scanf, p)
           /\ a < Len(s) /\ s[a + 1] = "("
           /\ c < Len(s) /\ c > a + 1
           /\ pairs # {}
        THEN [found |-> TRUE, text |-> Slice(s, best[1], best[2])]
        ELSE [found |-> FALSE, text |-> <<>>]

CScanfSearch(s) ==
    LET hits == {p \in 0..Len(s) : CScanfAt(s, p).found}
    IN  IF hits = {} THEN [found |-> FALSE, text |-> <<>>]
        ELSE CScanfAt(s, CHOOSE p \in hits : \A r \in hits : p <= r)

Return == <<"R", "e", "t", "u", "r", "n">>
return == <<"r", "e", "t", "u", "r", "n">>
DeclareVariable == <<"D", "e", "c", "l", "a", "r", "e", " ", "v", "a", "r", "i", "a", "b", "l", "e">>

CLabelKind(label, kind) == [label |-> label, kind |-> kind]

\* the label of a printf statement, m the result of the search for its string
CDisplay(m) ==
    IF m.found THEN CLabelKind(<<"D", "i", "s", "p", "l", "a", "y", " ">> \o m.text, "io")
    ELSE CLabelKind(<<"O", "u", "t", "p", "u", "t">>, "io")

\* the label of a scanf statement, m the result of the search for its variable
CInput(m) ==
    IF m.found
    THEN CLabelKind(<<"I", "n", "p", "u", "t", " ">>
                    \o Strip(ReplaceChar(Strip(m.text), "&", <<>>)), "io")
    ELSE CLabelKind(<<"I", "n", "p", "u", "t">>, "io")

\* the label of a declaration of names
CDeclare(names) ==
    IF names = <<>> THEN CLabelKind(DeclareVariable, "proc")
    ELSE IF Len(names) = 1
    THEN CLabelKind(DeclareVariable \o <<" ">> \o names[1], "proc")
    ELSE CLabelKind(DeclareVariable \o <<"s", " ">> \o JoinComma(names), "proc")

\* _label_and_kind
_label_and_kind(node) ==
    LET s == Strip(node.text)
        orElse(dflt) == IF node.text # <<>> THEN Strip(node.text) ELSE dflt
    IN  IF node.type = "stmt"
        THEN IF StartsWith(s, Printf) THEN CDisplay(CPrintfSearch(s))
             ELSE IF StartsWith(s, Scanf) THEN CInput(CScanfSearch(s))
             ELSE IF CDeclPrefix(s) >= 0 THEN CDeclare(_extract_var_names(s))
             ELSE IF StartsWith(s, return) THEN CLabelKind(Return, "proc")
             ELSE CLabelKind(Strip(RStripChar(s, ";")), "proc")
        ELSE IF node.type \in {"if", "while", "do"}
        THEN CLabelKind(orElse(<<"C", "o", "n", "d", "i", "t", "i", "o", "n">>), "decision")
        ELSE IF node.type = "for"
        THEN CLabelKind(orElse(<<"F", "o", "r">>), "decision")
        ELSE CLabelKind(orElse(<<"S", "w", "i", "t", "c", "h">>), "decision")

\* new_id: the id the next call returns
CNextId(R) == <<"N", R.node_counter + 1>>

\* add_node: a parallelogram for "io", a diamond for "decision", else a box
add_node(R, label, kind) ==
    AddNode(Bump(R), CNextId(R), _clean_label(label),
            IF kind \in {"io", "decision"} THEN kind ELSE "rect")

\* connect: an empty edge label is no label
connect(R, a, b, edge_label) == AddEdge(R, a, b, edge_label)

\* "nid = add_node(l, 'io' if t == 'io' else 'proc'); connect(from, nid)" for
\* the label and kind lk of a statement
CEmit(R, lk, from, edge_label) ==
    connect(add_node(R, lk.label, IF lk.kind = "io" THEN "io" ELSE "proc"),
            from, CNextId(R), edge_label)

\* the statements of a branch after the first, chained without labels
RECURSIVE CBranchRest(_, _, _)
CBranchRest(R, stmts, cur) ==
    IF stmts = <<>> THEN [R |-> R, last |-> cur]
    ELSE CBranchRest(CEmit(R, _label_and_kind(Head(stmts)), cur, NoLabel),
                     Tail(stmts), CNextId(R))

\* a branch of an if: the first node hangs on the decision under edge_label,
\* the later ones follow; its end is None for an empty branch.  b holds the
\* diagram and the ends of the branches rendered before
CBranch(b, stmts, d_id, edge_label) ==
    BranchEnd(b.branch_ends,
              IF stmts = <<>> THEN [R |-> b.R, last |-> None]
              ELSE CBranchRest(CEmit(b.R, _label_and_kind(Head(stmts)), d_id, edge_label),
                               Tail(stmts), CNextId(b.R)))

\* the end of a branch joins target; a missing branch joins it from the decision
CJoin(R, branch_last, d_id, target, edge_label) ==
    IF branch_last # None THEN connect(R, branch_last, target, NoLabel)
    ELSE connect(R, d_id, target, edge_label)

\* the end of the rendering of an if, b holding then_last and else_last: the
\* branches join End and the call returns, or they join a Merge node
CCloseIf(b, d_id, prev_id, is_last_top) ==
    IF is_last_top
    THEN [R |-> AddNode(CJoin(CJoin(b.R, b.branch_ends[1], d_id, End, LblYes),
                              b.branch_ends[2], d_id, End, LblNo),
                        End, EndLabel, "circle"),
          prev |-> prev_id, done |-> TRUE]
    ELSE [R |-> CJoin(CJoin(add_node(b.R, MergeLabel, "proc"),
                            b.branch_ends[1], d_id, CNextId(b.R), LblYes),
                      b.branch_ends[2], d_id, CNextId(b.R), LblNo),
          prev |-> CNextId(b.R), done |-> FALSE]

\* the rendering of a top-level if; done says the call returned
CRenderIf(R, node, prev_id, is_last_top) ==
    CCloseIf(CBranch(CBranch([R |-> connect(add_node(R, _label_and_kind(node).label,
                                                     "decision"),
                                            prev_id, CNextId(R), NoLabel),
                              branch_ends |-> <<>>],
                             node.then, CNextId(R), LblYes),
                     node.els, CNextId(R), LblNo),
             CNextId(R), prev_id, is_last_top)

\* ------------------------------------------------------ C inputs (bounded)
CDecl == CStmtNode(<<"i", "n", "t", " ", "x", ";">>)
CDeclInit == CStmtNode(<<"i", "n", "t", " ", "x", "=", "5", ";">>)
CAssign == CStmtNode(<<"x", "=", "1", ";">>)
CReturn == CStmtNode(<<"r", "e", "t", "u", "r", "n", " ", "0", ";">>)
CReturnCode == CStmtNode(<<"r", "e", "t", "u", "r", "n", "C", "o", "d", "e", "=", "1", ";">>)
CLeaves == {CDecl, CDeclInit, CAssign, CReturn, CReturnCode}

\* CSeqs(n), CItems(k), CCaseSeqs(n, idx): as for Python.  An if may have an
\* empty then-block and no else; loops and cases have non-empty bodies.
RECURSIVE CSeqs(_), CItems(_), CCaseSeqs(_, _)
CSeqs(n) ==
    IF n = 0 THEN {<<>>}
    ELSE UNION {{<<it>> \o rest : it \in CItems(k), rest \in CSeqs(n - k)} : k \in 1..n}

CItems(k) ==
    IF k = 1 THEN CLeaves \cup {CIf(<<"c">>, <<>>, FALSE, <<>>)}
    ELSE {CIf(<<"c">>, t, FALSE, <<>>) : t \in CSeqs(k - 1)}
         \cup UNION {{CIf(<<"c">>, t, TRUE, e) : t \in CSeqs(a), e \in CSeqs(k - 1 - a)}
                     : a \in 0..(k - 2)}
         \cup {CLoop(ty, <<"c">>, b) : ty \in {"for", "while", "do"}, b \in CSeqs(k - 1)}
         \cup {CSwitch(<<"x">>, cs) : cs \in CCaseSeqs(k - 1, 1)}

CCaseSeqs(n, idx) ==
    IF n < 2 THEN {}
    ELSE {<<CCase(<<"c", "a", "s", "e", " ", Digit(idx)>>, b)>> : b \in CSeqs(n - 1)}
         \cup UNION {{<<CCase(<<"c", "a", "s", "e", " ", Digit(idx)>>, b)>> \o rest :
                         b \in CSeqs(a), rest \in CCaseSeqs(n - 1 - a, idx + 1)}
                     : a \in 1..(n - 3)}

CProgs == UNION {CSeqs(n) : n \in 0..CMaxSize}

\* ======================================================== java_parser.py
\* A node of the tree _parse_block builds: {'type': 'stmt', 'code'},
\* {'type': 'if_chain', 'clauses', 'else'}, {'type': 'for' | 'while' |
\* 'do_while', 'cond', 'body'}, {'type': 'switch', 'cond', 'cases'}.  code
\* holds the statement line or the condition; hasElse is FALSE where 'else'
\* is None.
JNode(type, code, clauses, hasElse, els, body, cases) ==
    [type |-> type, code |-> code, clauses |-> clauses, hasElse |-> hasElse, els |-> els,
     body |-> body, cases |-> cases]

JStmtNode(code) == JNode("stmt", code, <<>>, FALSE, <<>>, <<>>, <<>>)
JClause(cond, block) == [cond |-> cond, block |-> block]
JIfChain(clauses, hasElse, els) == JNode("if_chain", <<>>, clauses, hasElse, els, <<>>, <<>>)
JLoop(type, cond, body) == JNode(type, cond, <<>>, FALSE, <<>>, body, <<>>)
JCase(label, body) == [label |-> label, body |-> body]
JSwitch(cond, cases) == JNode("switch", cond, <<>>, FALSE, <<>>, <<>>, cases)

\* re.search(r'\bword\b', s)
ContainsWord(s, word) ==
    \E p \in 0..Len(s) :
        /\ StartsWithAt(s, word, p)
        /\ (p = 0 \/ ~IsWordChar(s[p]))
        /\ (p + Len(word) = Len(s) \/ ~IsWordChar(s[p + Len(word) + 1]))

\* ------------------------------------------------ the control-tree builder
\* _extract_paren: re.search(r'\((.*)\)', text), the text between the first
\* '(' and the last ')' of the line, stripped; empty if there is none
_extract_paren(text) ==
    LET closers == {q \in 0..(Len(text) - 1) : text[q + 1] = ")"}
    IN  IF closers = {} \/ \A q \in closers : q < IndexOf(text, "(", 0) THEN <<>>
        ELSE Strip(Slice(text, IndexOf(text, "(", 0) + 1,
                         CHOOSE q \in closers : \A r \in closers : r <= q))

\* "while j < n and lines[j] != '{': j += 1"
RECURSIVE JOpenAt(_, _)
JOpenAt(lines, j) ==
    IF j >= Len(lines) \/ lines[j + 1] = <<"{">> THEN j ELSE JOpenAt(lines, j + 1)

\* re.search(r'\bclass\b', line) or re.search(r'\bmain\s*\(', line)
JClassOrMain(line) ==
    \/ ContainsWord(line, <<"c", "l", "a", "s", "s">>)
    \/ \E p \in 0..Len(line) :
           /\ StartsWithAt(line, <<"m", "a", "i", "n">>, p)
           /\ (p = 0 \/ ~IsWordChar(line[p]))
           /\ SkipSpaces(line, p + 4) < Len(line)
           /\ line[SkipSpaces(line, p + 4) + 1] = "("

\* re.match(r'case .*?:', stmt) or re.match(r'default:', stmt)
JCaseLine(stmt) ==
    \/ StartsWith(stmt, <<"c", "a", "s", "e", " ">>) /\ IndexOf(stmt, ":", 5) < Len(stmt)
    \/ StartsWith(stmt, <<"d", "e", "f", "a", "u", "l", "t", ":">>)

\* the "while j < n and lines[j] != '}'" loop of a switch: cases the finished
\* cases, cur the current case (has_cur: there is one)
RECURSIVE JCaseLoop(_, _, _, _, _)
JCaseLoop(lines, j, cases, cur, has_cur) ==
    IF j >= Len(lines) \/ lines[j + 1] = <<"}">>
    THEN Item(IF has_cur THEN Append(cases, cur) ELSE cases, j + 1, {})
    ELSE IF JCaseLine(lines[j + 1])
    THEN JCaseLoop(lines, j + 1, IF has_cur THEN Append(cases, cur) ELSE cases,
                   JCase(RStripChar(lines[j + 1], ":"), <<>>), TRUE)
    ELSE JCaseLoop(lines, j + 1, cases,
                   IF has_cur THEN [cur EXCEPT !.body = Append(@, lines[j + 1])] ELSE cur,
                   has_cur)

RECURSIVE JParseLoop(_, _, _, _), JItemAt(_, _), JElseClauses(_, _, _)

\* _parse_block(lines, i) of java_parser: the block from line i up to its
\* closing '}' line or the end of the lines, and the index after it
java_parse_block(lines, i) == JParseLoop(lines, i, <<>>, {})

\* "j = i + 1; while ...: j += 1; body, j = ([], j) if j >= n or lines[j] !=
\* '{' else _parse_block(lines, j + 1)": the block after the next '{' line,
\* parsed by a recursive call which the scan at line from makes
JBlockAfter(lines, i, from) ==
    IF JOpenAt(lines, i + 1) >= Len(lines) THEN Item(<<>>, JOpenAt(lines, i + 1), {})
    ELSE JParseLoop(lines, JOpenAt(lines, i + 1) + 1, <<>>,
                    {<<from, JOpenAt(lines, i + 1) + 1>>})

\* the "while i < n" loop
JParseLoop(lines, i, block, calls) ==
    IF i >= Len(lines) THEN Item(block, i, calls)
    ELSE IF lines[i + 1] = <<"}">> THEN Item(block, i + 1, calls)
    ELSE LET r == JItemAt(lines, i)
         IN  JParseLoop(lines, r.next, block \o r.nodes, calls \cup r.calls)

\* "while k < n and lines[k].startswith('else')": the else-if clauses and the
\* else block of the chain the scan at line from is building
JElseClauses(lines, k, from) ==
    IF k < Len(lines) /\ StartsWith(lines[k + 1], <<"e", "l", "s", "e">>)
    THEN LET b == JBlockAfter(lines, k, from)
             rest == JElseClauses(lines, b.next, from)
         IN  IF StartsWith(lines[k + 1], <<"e", "l", "s", "e", " ", "i", "f">>)
             THEN [rest EXCEPT !.clauses = <<JClause(_extract_paren(lines[k + 1]), b.nodes)>> \o @,
                               !.calls = b.calls \cup @]
             ELSE [clauses |-> <<>>, hasElse |-> TRUE, els |-> b.nodes,
                   next |-> b.next, calls |-> b.calls]
    ELSE [clauses |-> <<>>, hasElse |-> FALSE, els |-> <<>>, next |-> k, calls |-> {}]

\* one iteration of the loop at a line i that is not '}'
JItemAt(lines, i) ==
    LET line == lines[i + 1]
        b == JBlockAfter(lines, i, i)
        rest == JElseClauses(lines, b.next, i)
        tail == b.next < Len(lines) /\ StartsWith(lines[b.next + 1], <<"w", "h", "i", "l", "e">>)
        cases == JCaseLoop(lines, JOpenAt(lines, i + 1) + 1, <<>>, JCase(<<>>, <<>>), FALSE)
    IN  IF JClassOrMain(line)
        THEN (IF JOpenAt(lines, i + 1) < Len(lines) THEN b ELSE Item(<<>>, i + 1, {}))
        ELSE IF StartsWith(line, <<"i", "f">>)
        THEN Item(<<JIfChain(<<JClause(_extract_paren(line), b.nodes)>> \o rest.clauses,
                             rest.hasElse, rest.els)>>,
                  rest.next, b.calls \cup rest.calls)
        ELSE IF StartsWith(line, <<"f", "o", "r">>)
        THEN Item(<<JLoop("for", _extract_paren(line), b.nodes)>>, b.next, b.calls)
        ELSE IF StartsWith(line, <<"w", "h", "i", "l", "e">>)
        THEN Item(<<JLoop("while", _extract_paren(line), b.nodes)>>, b.next, b.calls)
        ELSE IF StartsWith(line, <<"d", "o">>)
        THEN Item(<<JLoop("do_while",
                          IF tail THEN _extract_paren(lines[b.next + 1]) ELSE <<>>,
                          b.nodes)>>,
                  IF tail THEN b.next + 1 ELSE b.next, b.calls)
        ELSE IF StartsWith(line, <<"s", "w", "i", "t", "c", "h">>)
        THEN Item(<<JSwitch(_extract_paren(line), cases.nodes)>>, cases.next, {})
        ELSE Item(<<JStmtNode(line)>>, i + 1, {})

Println == <<"S", "y", "s", "t", "e", "m", ".", "o", "u", "t", ".",
             "p", "r", "i", "n", "t", "l", "n">>

\* a match of System\.out\.println\s*\((.*)\) starting at p: the 0-based index
\* of its closing ')' (the last one on the line of the '('), or -1
JPrintlnClose(s, p) ==
    LET a == SkipSpaces(s, p + Len(Println))
        lineEnd == IndexOf(s, "\n", a)
        closers == {q \in (a + 1)..(lineEnd - 1) : s[q + 1] = ")"}
    IN  IF StartsWithAt(s, Println, p) /\ a < Len(s) /\ s[a + 1] = "(" /\ closers # {}
        THEN CHOOSE q \in closers : \A r \in closers : r <= q
        ELSE -1

\* re.sub(r'System\.out\.println\s*\((.*)\)', r'print(\1)', s): JSubFrom
\* rewrites the match that starts at p and goes on behind it
RECURSIVE JSubPrintln(_)
JSubFrom(s, p, q) ==
    Slice(s, 0, p) \o <<"p", "r", "i", "n", "t", "(">>
    \o Slice(s, SkipSpaces(s, p + Len(Println)) + 1, q)
    \o <<")">> \o JSubPrintln(Slice(s, q + 1, Len(s)))

JSubLeftmost(s, hits) ==
    IF hits = {} THEN s
    ELSE \* the leftmost match
         LET p == CHOOSE h \in hits : \A r \in hits : h <= r
         IN  JSubFrom(s, p, JPrintlnClose(s, p))

JSubPrintln(s) == JSubLeftmost(s, {p \in 0..Len(s) : JPrintlnClose(s, p) >= 0})

\* "if s.endswith(';'): s = s[:-1].rstrip()"
JDropSemicolon(s) ==
    IF s # <<>> /\ s[Len(s)] = ";" THEN RStrip(SubSeq(s, 1, Len(s) - 1)) ELSE s

\* _safe_label
_safe_label(s) == ReplaceChar(JDropSemicolon(JSubPrintln(Strip(s))), "\"", <<"'">>)

\* new_id: the id the next call returns
JNextId(R) == <<"N", R.node_counter + 1>>

add_node_rect(R, label) ==
    AddNode(Bump(R), JNextId(R), IF Strip(label) = <<>> THEN Blank ELSE label, "rect")

add_node_diamond(R, label) == AddNode(Bump(R), JNextId(R), label, "decision")

add_node_circle(R, label) == AddNode(Bump(R), JNextId(R), label, "circle")

\* "\n".join(...) over the texts of a list
RECURSIVE JoinLines(_)
JoinLines(parts) ==
    IF parts = <<>> THEN <<>>
    ELSE IF Len(parts) = 1 THEN parts[1]
    ELSE parts[1] \o <<"\n">> \o JoinLines(Tail(parts))

\* the text of a for/while body: one line per statement, '...' for a construct
JBodyText(body) ==
    JoinLines([k \in 1..Len(body) |->
                  IF body[k].type = "stmt" THEN _safe_label(body[k].code) ELSE Ellipsis])

\* the label of a case node: the case label, and its body lines if it has any
JCaseLabel(label, case_body) ==
    IF case_body # <<>> THEN label \o <<":", "\n">> \o case_body ELSE label

\* the cases of a switch: one rectangle per case between switch_n and merge_n
RECURSIVE JCases(_, _, _, _)
JCases(R, cases, switch_n, merge_n) ==
    IF cases = <<>> THEN R
    ELSE JCases(AddEdge(AddEdge(add_node_rect(R, JCaseLabel(
                                                     Head(cases).label,
                                                     JoinLines([k \in 1..Len(Head(cases).body) |->
                                                                   _safe_label(Head(cases).body[k])]))),
                                switch_n, JNextId(R), LblCase),
                        JNextId(R), merge_n, NoLabel),
                Tail(cases), switch_n, merge_n)

\* first / last bookkeeping shared by the branches of render_block.  S is the
\* block so far and c a construct rendered behind it, both as (R, first,
\* last): c's first is the block's first if nothing came before, the previous
\* last is connected to it, and c's last is the new last
JEnter(S, c) ==
    [R |-> IF S.last # None THEN AddEdge(c.R, S.last, c.first, NoLabel) ELSE c.R,
     first |-> IF S.first = None THEN c.first ELSE S.first,
     last |-> c.last]

\* a node that is a construct on its own: first and last are its id
JSingle(R, nid) == [R |-> R, first |-> nid, last |-> nid]

RECURSIVE JRenderStmts(_, _), render_if_chain(_, _), JClauses(_, _, _)

\* render_block: (first, last) of the rendered block, (None, None) if empty
render_block(R, block) == JRenderStmts([R |-> R, first |-> None, last |-> None], block)

\* a statement: skipped if its label names a class or the main method
JStmt(S, lbl) ==
    IF ContainsWord(lbl, <<"c", "l", "a", "s", "s">>)
       \/ \E p \in 0..Len(lbl) :
              StartsWithAt(lbl, <<"s", "t", "a", "t", "i", "c", " ", "v", "o", "i", "d",
                                  " ", "m", "a", "i", "n">>, p)
    THEN S
    ELSE JEnter(S, JSingle(add_node_rect(S.R, lbl), JNextId(S.R)))

\* a for or while loop: the diamond cond_n and, for a non-empty body, one
\* rectangle holding the body text, with the True edge and the edge back
JLoopStmt(S, stmt, cond_n) ==
    [JEnter(S, JSingle(add_node_diamond(S.R, (IF stmt.type = "for" THEN <<"f", "o", "r">>
                                               ELSE <<"w", "h", "i", "l", "e">>)
                                              \o <<" ", "(">> \o _safe_label(stmt.code)
                                              \o <<")">>),
                       cond_n))
     EXCEPT !.R = IF stmt.body # <<>>
                  THEN AddEdge(AddEdge(add_node_rect(@, JBodyText(stmt.body)),
                                       cond_n, JNextId(@), LblTrue),
                               JNextId(@), cond_n, NoLabel)
                  ELSE @]

\* a do-while loop, b its rendered body: the diamond behind the body, the
\* edge from the previous last to the body's first, from the body's last to
\* the diamond, and the True edge back to the body's first
JDoWhile(S, b, stmt) ==
    [JEnter(S, [R |-> add_node_diamond(b.R, <<"d", "o", "-", "w", "h", "i", "l", "e", " ", "(">>
                                            \o _safe_label(stmt.code) \o <<")">>),
                first |-> b.first, last |-> JNextId(b.R)])
     EXCEPT !.R = AddEdge(AddEdge(@, b.last, JNextId(b.R), NoLabel),
                          JNextId(b.R), b.first, LblTrue)]

\* a switch, e the block after its diamond switch_n: the merge circle and the
\* cases between the two; the merge circle is the new last
JSwitchStmt(e, stmt, switch_n) ==
    [R |-> JCases(AddNode(Bump(e.R), JNextId(e.R), Blank, "circle"),
                  stmt.cases, switch_n, JNextId(e.R)),
     first |-> e.first,
     last |-> JNextId(e.R)]

\* one iteration of the loop "for stmt in block" of render_block
JRenderStmt(S, stmt) ==
    CASE stmt.type = "stmt" -> JStmt(S, _safe_label(stmt.code))
      [] stmt.type = "if_chain" -> JEnter(S, render_if_chain(S.R, stmt))
      [] stmt.type \in {"for", "while"} -> JLoopStmt(S, stmt, JNextId(S.R))
      [] stmt.type = "do_while" -> JDoWhile(S, render_block(S.R, stmt.body), stmt)
      [] OTHER ->
           JSwitchStmt(JEnter(S, JSingle(add_node_diamond(
                                             S.R, <<"s", "w", "i", "t", "c", "h", " ", "(">>
                                                  \o _safe_label(stmt.code) \o <<")">>),
                                         JNextId(S.R))),
                       stmt, JNextId(S.R))

JRenderStmts(S, block) ==
    IF block = <<>> THEN S ELSE JRenderStmts(JRenderStmt(S, Head(block)), Tail(block))

\* the then-block t of a clause hangs on cond_id under True and joins
\* merge_id; an empty block is the True edge into merge_id.  The same holds
\* for an else block under False
JHang(t, cond_id, merge_id, edge_label) ==
    IF t.first # None
    THEN AddEdge(AddEdge(t.R, cond_id, t.first, edge_label), t.last, merge_id, NoLabel)
    ELSE AddEdge(t.R, cond_id, merge_id, edge_label)

\* the diamond of a clause and the False edge into it from the clause before
JCondition(c, cond_label) ==
    IF c.prev_cond_id # None
    THEN AddEdge(add_node_diamond(c.R, cond_label), c.prev_cond_id, JNextId(c.R), LblFalse)
    ELSE add_node_diamond(c.R, cond_label)

\* the loop "for cond, then_block in clauses" of render_if_chain; c holds the
\* diagram, prev_cond_id and first_cond_id
JClauses(c, clauses, merge_id) ==
    IF clauses = <<>> THEN c
    ELSE JClauses([R |-> JHang(render_block(JCondition(c, _safe_label(Head(clauses).cond)),
                                            Head(clauses).block),
                               JNextId(c.R), merge_id, LblTrue),
                   prev_cond_id |-> JNextId(c.R),
                   first_cond_id |-> IF c.first_cond_id = None THEN JNextId(c.R)
                                     ELSE c.first_cond_id],
                  Tail(clauses), merge_id)

\* the end of render_if_chain, c the state after the clauses: the else block
\* or the False edge of the last condition into the merge circle
JElse(c, if_node, merge_id) ==
    [R |-> IF if_node.hasElse
           THEN JHang(render_block(c.R, if_node.els), c.prev_cond_id, merge_id, LblFalse)
           ELSE AddEdge(c.R, c.prev_cond_id, merge_id, LblFalse),
     first |-> c.first_cond_id,
     last |-> merge_id]

render_if_chain(R, if_node) ==
    JElse(JClauses([R |-> AddNode(Bump(R), JNextId(R), Blank, "circle"),
                    prev_cond_id |-> None, first_cond_id |-> None],
                   if_node.clauses, JNextId(R)),
          if_node, JNextId(R))

\* the edges that tie the rendered block b to Start and End: the first is
\* inserted in front of the edge list, the second appended
JTie(b, start_id, end_id) ==
    [b.R EXCEPT !.edges =
        <<IF b.first # None THEN Edge(start_id, b.first, NoLabel)
          ELSE Edge(start_id, end_id, NoLabel)>>
        \o @
        \o <<IF b.last # None THEN Edge(b.last, end_id, NoLabel)
             ELSE Edge(start_id, end_id, NoLabel)>>]

\* parse_java_code after parsing: the terminals, the rendered block, and the
\* edges that tie it to Start and End
JRender(ast_root) ==
    JTie(render_block(add_node_circle(add_node_circle(EmptyDiagram, StartLabel), EndLabel),
                      ast_root),
         JNextId(EmptyDiagram),
         JNextId(add_node_circle(EmptyDiagram, StartLabel)))

\* --------------------------------------------------- Java inputs (bounded)
JAssign == JStmtNode(<<"x", " ", "=", " ", "1", ";">>)
JReturn == JStmtNode(<<"r", "e", "t", "u", "r", "n", " ", "x", ";">>)
JLeaves == {JAssign, JReturn}

\* JSeqs(n), JItems(k): as for Python.  Blocks may be empty.  JElseIfs(n):
\* the lists of else-if clauses of exactly n tree nodes; JCaseSeqs(n, idx):
\* the case lists, a case holding raw statement lines.
RECURSIVE JSeqs(_), JItems(_), JElseIfs(_), JCaseSeqs(_, _), JLineSeqs(_), JIfChains(_)
JSeqs(n) ==
    IF n = 0 THEN {<<>>}
    ELSE UNION {{<<it>> \o rest : it \in JItems(k), rest \in JSeqs(n - k)} : k \in 1..n}

JLineSeqs(n) ==
    IF n = 0 THEN {<<>>}
    ELSE {<<l.code>> \o rest : l \in JLeaves, rest \in JLineSeqs(n - 1)}

JElseIfs(n) ==
    IF n = 0 THEN {<<>>}
    ELSE UNION {{<<JClause(<<"d">>, b)>> \o rest : b \in JSeqs(a), rest \in JElseIfs(n - 1 - a)}
                : a \in 0..(n - 1)}

JCaseSeqs(n, idx) ==
    IF n = 0 THEN {<<>>}
    ELSE UNION {{<<JCase(<<"c", "a", "s", "e", " ", Digit(idx)>>, b)>> \o rest :
                    b \in JLineSeqs(a), rest \in JCaseSeqs(n - 1 - a, idx + 1)}
                : a \in 0..(n - 1)}

\* the if chains of exactly k tree nodes: the if, its then-block of a nodes,
\* else-if clauses of b nodes, and either no else or a non-empty else block
JIfChains(k) ==
    UNION {{JIfChain(<<JClause(<<"c">>, t)>> \o ei, FALSE, <<>>) :
               t \in JSeqs(a), ei \in JElseIfs(k - 1 - a)}
           : a \in 0..(k - 1)}
    \cup UNION {UNION {{JIfChain(<<JClause(<<"c">>, t)>> \o ei, TRUE, e) :
                          t \in JSeqs(a), ei \in JElseIfs(b), e \in JSeqs(k - 1 - a - b)}
                       : b \in 0..(k - 2 - a)}
                : a \in 0..(k - 2)}

JItems(k) ==
    (IF k = 1 THEN JLeaves ELSE {})
    \cup JIfChains(k)
    \cup {JLoop(ty, <<"c">>, b) : ty \in {"for", "while", "do_while"}, b \in JSeqs(k - 1)}
    \cup {JSwitch(<<"x">>, cs) : cs \in JCaseSeqs(k - 1, 1)}

JProgs == UNION {JSeqs(n) : n \in 0..JMaxSize}

\* ============================================================ parser.py
\* The input text is kept as what the code looks at: the language markers it
\* contains, whether ast.parse accepts it, and the control tree the selected
\* family's parser builds from it.
Input(markers, parses, tree) == [markers |-> markers, parses |-> parses, tree |-> tree]

detect_language(code) ==
    IF "public class" \in code.markers \/ "System.out" \in code.markers THEN "java"
    ELSE IF "#include" \in code.markers \/ "printf" \in code.markers
            \/ "scanf" \in code.markers THEN "c"
    ELSE "python"

PyInputs == {Input({}, TRUE, t) : t \in PyProgs} \cup {Input({}, FALSE, <<>>)}

CInputs == {Input({"printf"}, FALSE, t) : t \in CProgs}

JInputs == {Input({"System.out"}, FALSE, t) : t \in JProgs}

VARIABLES code, pc, ast, i, nodes, edges, node_counter, last, prev,
          last_label_added, result

vars == <<code, pc, ast, i, nodes, edges, node_counter, last, prev,
          last_label_added, result>>

\* the diagram variables as one record, and back
Diagram == [nodes |-> nodes, edges |-> edges, node_counter |-> node_counter]

SetDiagram(R) ==
    /\ nodes' = R.nodes
    /\ edges' = R.edges
    /\ node_counter' = R.node_counter

Init ==
    /\ code \in PyInputs \cup CInputs \cup JInputs
    /\ pc = "start"
    /\ ast = <<>>
    /\ i = 0
    /\ nodes = <<>>
    /\ edges = <<>>
    /\ node_counter = 0
    /\ last = Start
    /\ prev = Start
    /\ last_label_added = <<"None">>
    /\ result = "none"

\* flowchart_from_input: select the family's entry point.  java_parser has
\* no attribute code_to_flowchart, so the Java branch raises AttributeError.
flowchart_from_input ==
    /\ pc = "start"
    /\ LET lang == detect_language(code)
       IN  IF lang = "java"
           THEN pc' = "raised" /\ result' = "AttributeError"
           ELSE pc' = lang /\ result' = result
    /\ UNCHANGED <<code, ast, i, nodes, edges, node_counter, last, prev, last_label_added>>

\* python_parser.code_to_flowchart, up to the statement loop: ast.parse and
\* either the error diagram or the header lines
PyErrorLabel == <<"E", "r", "r", "o", "r", ":", " ">>

PyParse ==
    /\ pc = "python"
    /\ IF ~code.parses
       THEN /\ nodes' = <<Node(Start, StartLabel, "circle"),
                          Node(ErrorId, PyErrorLabel, "rect"),
                          Node(End, EndLabel, "circle")>>
            /\ edges' = <<Edge(ErrorId, End, NoLabel)>>
            /\ pc' = "done"
            /\ result' = "diagram"
            /\ UNCHANGED <<ast, i>>
       ELSE /\ ast' = code.tree
            /\ nodes' = <<Node(Start, StartLabel, "circle")>>
            /\ edges' = <<>>
            /\ i' = 1
            /\ pc' = "py_loop"
            /\ result' = result
    /\ UNCHANGED <<code, node_counter, last, prev, last_label_added>>

\* one iteration of the loop over tree.body
PyStmt ==
    /\ pc = "py_loop"
    /\ i <= Len(ast)
    /\ \E r \in {PyTopLevel(Diagram, ast[i], last, i = Len(ast))} :
           SetDiagram(r.R) /\ last' = r.last
    /\ i' = i + 1
    /\ UNCHANGED <<code, pc, ast, prev, last_label_added, result>>

\* after the loop: the closing edge and the End line
PyEnd ==
    /\ pc = "py_loop"
    /\ i > Len(ast)
    /\ IF last # End
       THEN /\ edges' = Append(edges, Edge(last, End, NoLabel))
            /\ nodes' = nodes \o <<Node(End, EndLabel, "circle"), Node(End, EndLabel, "circle")>>
       ELSE /\ edges' = edges
            /\ nodes' = Append(nodes, Node(End, EndLabel, "circle"))
    /\ pc' = "done"
    /\ result' = "diagram"
    /\ UNCHANGED <<code, ast, i, node_counter, last, prev, last_label_added>>

\* c_parser.code_to_flowchart, up to the statement loop: the tree and the
\* Start line
CParse ==
    /\ pc = "c"
    /\ ast' = code.tree
    /\ nodes' = <<Node(Start, StartLabel, "circle")>>
    /\ edges' = <<>>
    /\ i' = 1
    /\ pc' = "c_loop"
    /\ UNCHANGED <<code, node_counter, last, prev, last_label_added, result>>

\* one iteration of "while i < len(ast)"
CStmt ==
    /\ pc = "c_loop"
    /\ i <= Len(ast)
    /\ IF ast[i].type = "if"
       THEN \E r \in {CRenderIf(Diagram, ast[i], prev, i = Len(ast))} :
                /\ SetDiagram(r.R)
                /\ prev' = r.prev
                /\ pc' = IF r.done THEN "done" ELSE pc
                /\ result' = IF r.done THEN "diagram" ELSE result
                /\ i' = IF r.done THEN i ELSE i + 1
                /\ UNCHANGED last_label_added
       ELSE \E lk \in {_label_and_kind(ast[i])} :
                IF lk.label = <<>> \/ lk.label = last_label_added
                THEN /\ i' = i + 1
                     /\ UNCHANGED <<nodes, edges, node_counter, prev, last_label_added,
                                    pc, result>>
                ELSE /\ prev' = CNextId(Diagram)
                     /\ last_label_added' = lk.label
                     /\ IF lk.label = Return
                        THEN /\ SetDiagram(AddNode(connect(CEmit(Diagram, lk, prev, NoLabel),
                                                           CNextId(Diagram), End, NoLabel),
                                                   End, EndLabel, "circle"))
                             /\ pc' = "done"
                             /\ result' = "diagram"
                             /\ i' = i
                        ELSE /\ SetDiagram(CEmit(Diagram, lk, prev, NoLabel))
                             /\ i' = i + 1
                             /\ UNCHANGED <<pc, result>>
    /\ UNCHANGED <<code, ast, last>>

\* after the loop: connect(prev, "End") and the End line
CEnd ==
    /\ pc = "c_loop"
    /\ i > Len(ast)
    /\ edges' = Append(edges, Edge(prev, End, NoLabel))
    /\ nodes' = Append(nodes, Node(End, EndLabel, "circle"))
    /\ pc' = "done"
    /\ result' = "diagram"
    /\ UNCHANGED <<code, ast, i, node_counter, last, prev, last_label_added>>

\* java_parser.parse_java_code, called directly: the one entry point of the
\* Java family
parse_java_code ==
    /\ pc = "start"
    /\ detect_language(code) = "java"
    /\ ast' = code.tree
    /\ \E R \in {JRender(code.tree)} : SetDiagram(R)
    /\ pc' = "done"
    /\ result' = "diagram"
    /\ UNCHANGED <<code, i, last, prev, last_label_added>>

Next ==
    \/ flowchart_from_input
    \/ PyParse
    \/ PyStmt
    \/ PyEnd
    \/ CParse
    \/ CStmt
    \/ CEnd
    \/ parse_java_code

Spec == Init /\ [][Next]_vars

\* ============================================== the text-level functions
\* A second specification applies the functions that work on text, each to
\* inputs drawn from bounded sets: the readers _read_stmt and _read_block,
\* the control-tree builders of c_parser and java_parser, one scanning-loop
\* iteration per step, and the labelling of one statement in each family.
\* Here code is the call's input, i the scan index of the builder, ast the
\* nodes built so far and result what the call returned (for a builder: the
\* log of the recursive calls made so far).

\* bounds of the text inputs: characters of a text given to a reader, chunks
\* of a C text and lines of a Java text given to a builder, digits of the
\* longest statement given to the labelling
ReadMaxLen == 4
CTextLen == 3
JTextLen == 3
MaxDigits == 50

ReadChars == {"(", ")", "{", "}", ";", " "}
ReadTexts == UNION {[1..k -> ReadChars] : k \in 0..ReadMaxLen}

\* the texts made of at most n of the given chunks
RECURSIVE ChunkTexts(_, _)
ChunkTexts(chunks, n) ==
    IF n = 0 THEN {<<>>}
    ELSE ChunkTexts(chunks, n - 1)
         \cup {t \o c : t \in ChunkTexts(chunks, n - 1), c \in chunks}

CChunks ==
    {<<"i", "f", " ", "(", "a", ")", " ">>, <<"e", "l", "s", "e", " ">>, <<"w", "h", "i", "l", "e", " ", "(", "b", ")", " ">>, <<"d", "o", " ">>, <<"s", "w", "i", "t", "c", "h", " ", "(", "x", ")", " ">>, <<"{", " ">>, <<"}", " ">>,
     <<"x", " ", "=", " ", "1", ";", " ">>, <<"c", "a", "s", "e", " ", "1", ":", " ">>, <<"b", "r", "e", "a", "k", ";", " ">>, <<"w", "h", "i", "l", "e", "C", "o", "u", "n", "t", " ", "=", " ", "1", ";", " ">>, <<"{", " ", "y", " ", "=", " ", "2", ";", " ", "}", " ">>}

\* texts the chunks do not reach: an else-if chain, unbraced bodies that are
\* constructs, a switch nested in a case, statements after a break, an
\* unclosed parenthesis
CElseIfChain ==
    <<"i", "f", " ", "(", "a", ")", " ", "{", " ", "x", " ", "=", " ", "1",
    ";", " ", "}", " ", "e", "l", "s", "e", " ", "i", "f", " ", "(", "b",
    ")", " ", "{", " ", "y", " ", "=", " ", "2", ";", " ", "}", " ", "e",
    "l", "s", "e", " ", "{", " ", "z", " ", "=", " ", "3", ";", " ", "}">>

CNestedLoopBody ==
    <<"i", "f", " ", "(", "a", ")", " ", "w", "h", "i", "l", "e", " ", "(",
    "b", ")", " ", "{", " ", "x", " ", "=", " ", "1", ";", " ", "}">>

CNestedIfBody ==
    <<"w", "h", "i", "l", "e", " ", "(", "a", ")", " ", "i", "f", " ", "(",
    "b", ")", " ", "x", " ", "=", " ", "1", ";">>

CNestedSwitch ==
    <<"s", "w", "i", "t", "c", "h", " ", "(", "x", ")", " ", "{", " ", "c",
    "a", "s", "e", " ", "1", ":", " ", "s", "w", "i", "t", "c", "h", " ",
    "(", "y", ")", " ", "{", " ", "c", "a", "s", "e", " ", "2", ":", " ",
    "y", " ", "=", " ", "2", ";", " ", "b", "r", "e", "a", "k", ";", " ",
    "}", " ", "b", "r", "e", "a", "k", ";", " ", "d", "e", "f", "a", "u",
    "l", "t", ":", " ", "z", " ", "=", " ", "3", ";", " ", "}">>

CSwitchBreak ==
    <<"s", "w", "i", "t", "c", "h", " ", "(", "x", ")", " ", "{", " ", "c",
    "a", "s", "e", " ", "1", ":", " ", "x", " ", "=", " ", "1", ";", " ",
    "b", "r", "e", "a", "k", ";", " ", "y", " ", "=", " ", "2", ";", " ",
    "c", "a", "s", "e", " ", "2", ":", " ", "{", " ", "z", " ", "=", " ",
    "3", ";", " ", "}", " ", "}">>

CUnbalanced ==
    <<"i", "f", " ", "(", "a", " ", "{", " ", "x", " ", "=", " ", "1", ";">>

CExamples ==
    {CElseIfChain, CNestedLoopBody, CNestedIfBody, CNestedSwitch, CSwitchBreak, CUnbalanced,
     <<"i", "f", " ", "(", "a", ")", " ", "{", "}", " ", "e", "l", "s", "e",
     " ", "i", "f", " ", "(", "b", ")", " ", "{", "}">>,
     <<"i", "f", " ", "(", "a", ")", " ", "x", " ", "=", " ", "1", ";", " ",
     "e", "l", "s", "e", " ", "y", " ", "=", " ", "2", ";">>,
     <<"i", "f", " ", "(", "a", ")", " ", "w", "h", "i", "l", "e", " ", "(",
     "b", ")", " ", "{", "}">>,
     <<"f", "o", "r", " ", "(", "i", " ", "=", " ", "0", ";", " ", "i", " ",
     "<", " ", "n", ";", " ", "i", "+", "+", ")", " ", "x", " ", "=", " ",
     "1", ";">>,
     <<"d", "o", " ", "{", " ", "x", " ", "=", " ", "1", ";", " ", "}", " ",
     "w", "h", "i", "l", "e", " ", "(", "b", ")", ";">>,
     <<"d", "o", "u", "b", "l", "e", " ", "x", ";", " ", "f", "o", "r", "m",
     "a", "t", "(", "y", ")", ";", " ", "i", "f", "f", "y", " ", "=", " ",
     "1", ";", " ", "d", "o", "_", "i", "t", "(", ")", ";", " ", "s", "w",
     "i", "t", "c", "h", "O", "n", " ", "=", " ", "1", ";", " ", "e", "l",
     "s", "e", "w", "h", "e", "r", "e", " ", "=", " ", "2", ";">>,
     <<"x", " ", "=", " ", "(", "1", ";">>}

CTexts == ChunkTexts(CChunks, CTextLen) \cup CExamples

JChunks ==
    {<<l>> : l \in {<<"i", "f", " ", "(", "a", ")">>, <<"e", "l", "s", "e", " ", "i", "f", " ", "(", "b", ")">>, <<"e", "l", "s", "e">>, <<"{">>, <<"}">>, <<"x", " ", "=", " ", "1", ";">>,
                    <<"w", "h", "i", "l", "e", " ", "(", "b", ")">>, <<"d", "o">>, <<"s", "w", "i", "t", "c", "h", " ", "(", "x", ")">>, <<"c", "a", "s", "e", " ", "1", ":">>, <<"d", "o", "u", "b", "l", "e", " ", "y", ";">>,
                    <<"c", "l", "a", "s", "s", " ", "A">>}}

JElseIfChain ==
    <<<<"i", "f", " ", "(", "a", ")">>,
      <<"{">>,
      <<"x", " ", "=", " ", "1", ";">>,
      <<"}">>,
      <<"e", "l", "s", "e", " ", "i", "f", " ", "(", "b", ")">>,
      <<"{">>,
      <<"y", " ", "=", " ", "2", ";">>,
      <<"}">>,
      <<"e", "l", "s", "e">>,
      <<"{">>,
      <<"z", " ", "=", " ", "3", ";">>,
      <<"}">>>>

JKeywordPrefixes ==
    <<<<"f", "o", "r", "m", "a", "t", "(", "y", ")", ";">>,
      <<"i", "f", "f", "y", " ", "=", " ", "1", ";">>,
      <<"s", "w", "i", "t", "c", "h", "O", "n", " ", "=", " ", "1", ";">>>>

JNestedSwitch ==
    <<<<"s", "w", "i", "t", "c", "h", " ", "(", "x", ")">>,
      <<"{">>,
      <<"c", "a", "s", "e", " ", "1", ":">>,
      <<"s", "w", "i", "t", "c", "h", " ", "(", "y", ")">>,
      <<"{">>,
      <<"c", "a", "s", "e", " ", "2", ":">>,
      <<"y", " ", "=", " ", "2", ";">>,
      <<"b", "r", "e", "a", "k", ";">>,
      <<"}">>,
      <<"b", "r", "e", "a", "k", ";">>,
      <<"d", "e", "f", "a", "u", "l", "t", ":">>,
      <<"z", " ", "=", " ", "3", ";">>,
      <<"}">>>>

JSwitchBreak ==
    <<<<"s", "w", "i", "t", "c", "h", " ", "(", "x", ")">>,
      <<"{">>,
      <<"c", "a", "s", "e", " ", "1", ":">>,
      <<"x", " ", "=", " ", "1", ";">>,
      <<"b", "r", "e", "a", "k", ";">>,
      <<"y", " ", "=", " ", "2", ";">>,
      <<"}">>>>

JUnbracedBody ==
    <<<<"i", "f", " ", "(", "a", ")", " ", "x", " ", "=", " ", "1", ";">>,
      <<"y", " ", "=", " ", "2", ";">>>>

JExamples ==
    {JElseIfChain, JKeywordPrefixes, JNestedSwitch, JSwitchBreak, JUnbracedBody,
     <<<<"p", "u", "b", "l", "i", "c", " ", "c", "l", "a", "s", "s", " ", "A">>,
       <<"{">>,
       <<"p", "u", "b", "l", "i", "c", " ", "s", "t", "a", "t", "i", "c", " ", "v", "o", "i", "d", " ", "m", "a", "i", "n", "(", "S", "t", "r", "i", "n", "g", "[", "]", " ", "a", ")">>,
       <<"{">>,
       <<"x", " ", "=", " ", "1", ";">>,
       <<"}">>,
       <<"}">>>>,
     <<<<"f", "o", "r", " ", "(", ";", ";", ")">>,
       <<"{">>,
       <<"x", " ", "=", " ", "1", ";">>,
       <<"}">>>>,
     <<<<"d", "o">>,
       <<"{">>,
       <<"x", " ", "=", " ", "1", ";">>,
       <<"}">>,
       <<"w", "h", "i", "l", "e", " ", "(", "b", ")", ";">>>>}

JTexts == ChunkTexts(JChunks, JTextLen) \cup JExamples

\* a statement that no rule but the fallback labels: head, k digits and tail
RECURSIVE Ones(_)
Ones(k) == IF k = 0 THEN <<>> ELSE <<"1">> \o Ones(k - 1)

LongStmts(tail) ==
    {h \o Ones(k) \o tail : h \in {<<"x", " ", "=", " ">>, <<"x", " ", "<", " ">>}, k \in 1..MaxDigits}

Call(fn, text, at) == [fn |-> fn, text |-> text, at |-> at]

InitText ==
    /\ \/ /\ code \in {Call("_read_stmt", s, at) : s \in ReadTexts, at \in 0..ReadMaxLen}
          /\ code.at <= Len(code.text)
          /\ pc = "call"
          /\ result = "none"
       \/ /\ code \in {Call("_read_block", s, at) : s \in ReadTexts, at \in 0..ReadMaxLen}
          /\ code.at < Len(code.text)
          /\ code.text[code.at + 1] \in {"(", "{"}
          /\ pc = "call"
          /\ result = "none"
       \/ /\ code \in {Call("c", s, 0) : s \in CTexts}
          /\ pc = "c_scan"
          /\ result = {}
       \/ /\ code \in {Call("java", s, 0) : s \in JTexts}
          /\ pc = "java_scan"
          /\ result = {}
       \/ /\ code \in {Call("python_label", s, 0) : s \in LongStmts(<<>>)}
                      \cup {Call(f, s, 0) : f \in {"c_label", "java_label"},
                                            s \in LongStmts(<<";">>)}
          /\ pc = "call"
          /\ result = "none"
    /\ ast = <<>>
    /\ i = 0
    /\ nodes = <<>>
    /\ edges = <<>>
    /\ node_counter = 0
    /\ last = Start
    /\ prev = Start
    /\ last_label_added = <<"None">>

\* a call of _read_stmt(s, i)
call_read_stmt ==
    /\ pc = "call"
    /\ code.fn = "_read_stmt"
    /\ result' = _read_stmt(code.text, code.at)
    /\ pc' = "returned"
    /\ UNCHANGED <<code, ast, i, nodes, edges, node_counter, last, prev, last_label_added>>

\* a call of _read_block(s, i) at an opening delimiter
call_read_block ==
    /\ pc = "call"
    /\ code.fn = "_read_block"
    /\ result' = _read_block(code.text, code.at)
    /\ pc' = "returned"
    /\ UNCHANGED <<code, ast, i, nodes, edges, node_counter, last, prev, last_label_added>>

\* the iteration without the "i = j" that moves the scan past what was read
c_parse_step_stuck ==
    /\ pc = "c_scan"
    /\ IF SkipSpaces(Strip(code.text), i) >= Len(Strip(code.text))
       THEN /\ pc' = "parsed"
            /\ i' = SkipSpaces(Strip(code.text), i)
            /\ UNCHANGED <<ast, result>>
       ELSE \E r \in {CItemAt(Strip(code.text), SkipSpaces(Strip(code.text), i))} :
                /\ ast' = ast \o r.nodes
                /\ i' = i
                /\ result' = result \cup r.calls
                /\ pc' = pc
    /\ UNCHANGED <<code, nodes, edges, node_counter, last, prev, last_label_added>>

\* c_parser._parse_block on the stripped text: one iteration of "while True"
c_parse_step ==
    /\ pc = "c_scan"
    /\ IF SkipSpaces(Strip(code.text), i) >= Len(Strip(code.text))
       THEN /\ pc' = "parsed"
            /\ i' = SkipSpaces(Strip(code.text), i)
            /\ UNCHANGED <<ast, result>>
       ELSE \E r \in {CItemAt(Strip(code.text), SkipSpaces(Strip(code.text), i))} :
                /\ ast' = ast \o r.nodes
                /\ i' = r.next
                /\ result' = result \cup r.calls
                /\ pc' = pc
    /\ UNCHANGED <<code, nodes, edges, node_counter, last, prev, last_label_added>>

\* java_parser._parse_block(lines, 0): one iteration of "while i < n"
java_parse_step ==
    /\ pc = "java_scan"
    /\ IF i >= Len(code.text)
       THEN pc' = "parsed" /\ UNCHANGED <<ast, i, result>>
       ELSE IF code.text[i + 1] = <<"}">>
       THEN pc' = "parsed" /\ i' = i + 1 /\ UNCHANGED <<ast, result>>
       ELSE \E r \in {JItemAt(code.text, i)} :
                /\ ast' = ast \o r.nodes
                /\ i' = r.next
                /\ result' = result \cup r.calls
                /\ pc' = pc
    /\ UNCHANGED <<code, nodes, edges, node_counter, last, prev, last_label_added>>

\* the label a family's renderer writes on the node of one statement
render_label ==
    /\ pc = "call"
    /\ code.fn \in {"python_label", "c_label", "java_label"}
    /\ result' = IF code.fn = "python_label"
                 THEN handle_expr(PyLeaf(IF code.text[3] = "=" THEN "Assign" ELSE "Expr",
                                            code.text, "none", <<>>, <<>>, <<>>)).label
                 ELSE IF code.fn = "c_label"
                 THEN _clean_label(_label_and_kind(CStmtNode(code.text)).label)
                 ELSE _safe_label(code.text)
    /\ pc' = "returned"
    /\ UNCHANGED <<code, ast, i, nodes, edges, node_counter, last, prev, last_label_added>>

NextText ==
    \/ call_read_stmt
    \/ call_read_block
    \/ c_parse_step
    \/ java_parse_step
    \/ render_label

SpecText == InitText /\ [][NextText]_vars

\* ====================================================== concurrent callers
\* A third specification runs two render calls whose steps interleave.  Every
\* variable holds one value per call, as each is a local of the call in the
\* code; the id counter and the output buffer are kept in cells, and CellOf
\* says which cell a call's closures read and write.  A step is one iteration
\* of a renderer's top-level loop.

\* bound of the first call's program, in top-level statements; the second
\* call renders a program of at most one statement
ConcSize == 1

Calls == {1, 2}

\* one counter and one buffer for all calls, as module-level state would be
SharedCell(c) == 1

\* "lines = [...]; node_counter = 0" are executed by the call itself and
\* reached through nonlocal from its closures: the cell is the call's own
CellOf(c) == c

ConcInputs(n) ==
    {Input({}, TRUE, t) : t \in UNION {PySeqs(k) : k \in 0..n}}
    \cup {Input({}, FALSE, <<>>)}
    \cup {Input({"printf"}, FALSE, t) : t \in UNION {CSeqs(k) : k \in 0..n}}
    \cup {Input({"System.out"}, FALSE, t) : t \in UNION {JSeqs(k) : k \in 0..n}}

\* the locals of call c, and the cell k
Locals(c) ==
    [code |-> code[c], pc |-> pc[c], ast |-> ast[c], i |-> i[c], last |-> last[c],
     prev |-> prev[c], last_label_added |-> last_label_added[c]]

Cell(k) == [nodes |-> nodes[k], edges |-> edges[k], node_counter |-> node_counter[k]]

Stepped(L, R) == [L |-> L, R |-> R]

\* the header lines and the counter at 0
Started(R) == [nodes |-> <<Node(Start, StartLabel, "circle")>>, edges |-> <<>>,
               node_counter |-> 0]

\* python_parser.code_to_flowchart: ast.parse and the header, then one
\* iteration of the loop over tree.body, then the closing lines
PyAfter(L, r) == Stepped([L EXCEPT !.i = @ + 1, !.last = r.last], r.R)

PyStep(L, R) ==
    IF L.pc = "python"
    THEN IF ~L.code.parses
         THEN Stepped([L EXCEPT !.pc = "done"],
                      [R EXCEPT !.nodes = <<Node(Start, StartLabel, "circle"),
                                            Node(ErrorId, PyErrorLabel, "rect"),
                                            Node(End, EndLabel, "circle")>>,
                                !.edges = <<Edge(ErrorId, End, NoLabel)>>])
         ELSE Stepped([L EXCEPT !.pc = "py_loop", !.ast = L.code.tree, !.i = 1], Started(R))
    ELSE IF L.i <= Len(L.ast)
    THEN PyAfter(L, PyTopLevel(R, L.ast[L.i], L.last, L.i = Len(L.ast)))
    ELSE Stepped([L EXCEPT !.pc = "done"],
                 IF L.last # End
                 THEN [R EXCEPT !.edges = Append(@, Edge(L.last, End, NoLabel)),
                                !.nodes = @ \o <<Node(End, EndLabel, "circle"),
                                                 Node(End, EndLabel, "circle")>>]
                 ELSE [R EXCEPT !.nodes = Append(@, Node(End, EndLabel, "circle"))])

\* c_parser.code_to_flowchart: the tree and the header, then one iteration of
\* "while i < len(ast)", then the closing lines
CAfterIf(L, r) ==
    Stepped([L EXCEPT !.prev = r.prev,
                      !.pc = IF r.done THEN "done" ELSE @,
                      !.i = IF r.done THEN @ ELSE @ + 1],
            r.R)

CAfterStmt(L, R, lk) ==
    IF lk.label = <<>> \/ lk.label = L.last_label_added
    THEN Stepped([L EXCEPT !.i = @ + 1], R)
    ELSE IF lk.label = Return
    THEN Stepped([L EXCEPT !.prev = CNextId(R), !.last_label_added = lk.label,
                           !.pc = "done"],
                 AddNode(connect(CEmit(R, lk, L.prev, NoLabel), CNextId(R), End, NoLabel),
                         End, EndLabel, "circle"))
    ELSE Stepped([L EXCEPT !.prev = CNextId(R), !.last_label_added = lk.label,
                           !.i = @ + 1],
                 CEmit(R, lk, L.prev, NoLabel))

CStep(L, R) ==
    IF L.pc = "c"
    THEN Stepped([L EXCEPT !.pc = "c_loop", !.ast = L.code.tree, !.i = 1], Started(R))
    ELSE IF L.i <= Len(L.ast)
    THEN IF L.ast[L.i].type = "if"
         THEN CAfterIf(L, CRenderIf(R, L.ast[L.i], L.prev, L.i = Len(L.ast)))
         ELSE CAfterStmt(L, R, _label_and_kind(L.ast[L.i]))
    ELSE Stepped([L EXCEPT !.pc = "done"],
                 [R EXCEPT !.edges = Append(@, Edge(L.prev, End, NoLabel)),
                           !.nodes = Append(@, Node(End, EndLabel, "circle"))])

\* one step of a call of its family's entry point; parse_java_code renders
\* its whole tree in one step
RenderStep(L, R) ==
    IF L.pc \in {"python", "py_loop"} THEN PyStep(L, R)
    ELSE IF L.pc \in {"c", "c_loop"} THEN CStep(L, R)
    ELSE Stepped([L EXCEPT !.pc = "done", !.ast = L.code.tree],
                 [nodes |-> JRender(L.code.tree).nodes,
                  edges |-> JRender(L.code.tree).edges,
                  node_counter |-> JRender(L.code.tree).node_counter])

\* the call's "return": the lines of its buffer
Returned(R) == [nodes |-> R.nodes, edges |-> R.edges]

\* a call about to start on the given input
Entered(input) ==
    [code |-> input, pc |-> detect_language(input), ast |-> <<>>, i |-> 0, last |-> Start,
     prev |-> Start, last_label_added |-> <<"None">>]

InitConc ==
    /\ code \in {<<a, b>> : a \in ConcInputs(ConcSize), b \in ConcInputs(1)}
    /\ pc = [c \in Calls |-> Entered(code[c]).pc]
    /\ ast = [c \in Calls |-> <<>>]
    /\ i = [c \in Calls |-> 0]
    /\ last = [c \in Calls |-> Start]
    /\ prev = [c \in Calls |-> Start]
    /\ last_label_added = [c \in Calls |-> <<"None">>]
    /\ nodes = [k \in Calls |-> <<>>]
    /\ edges = [k \in Calls |-> <<>>]
    /\ node_counter = [k \in Calls |-> 0]
    /\ result = [c \in Calls |-> Returned(EmptyDiagram)]

\* call c takes its next step
call_step(c) ==
    /\ pc[c] # "done"
    /\ \E S \in {RenderStep(Locals(c), Cell(CellOf(c)))} :
           /\ pc' = [pc EXCEPT ![c] = S.L.pc]
           /\ ast' = [ast EXCEPT ![c] = S.L.ast]
           /\ i' = [i EXCEPT ![c] = S.L.i]
           /\ last' = [last EXCEPT ![c] = S.L.last]
           /\ prev' = [prev EXCEPT ![c] = S.L.prev]
           /\ last_label_added' = [last_label_added EXCEPT ![c] = S.L.last_label_added]
           /\ nodes' = [nodes EXCEPT ![CellOf(c)] = S.R.nodes]
           /\ edges' = [edges EXCEPT ![CellOf(c)] = S.R.edges]
           /\ node_counter' = [node_counter EXCEPT ![CellOf(c)] = S.R.node_counter]
           /\ result' = [result EXCEPT ![c] = IF S.L.pc = "done" THEN Returned(S.R) ELSE @]
    /\ UNCHANGED code

NextConc == \E c \in Calls : call_step(c)

SpecConc == InitConc /\ [][NextConc]_vars

\* ================================================= the produced diagram
Done == pc = "done"
Lang == detect_language(code)

NodeIdx == 1..Len(nodes)
EdgeIdx == 1..Len(edges)

DeclaredIds == {nodes[k].id : k \in NodeIdx}
StartIds == {nodes[k].id : k \in {j \in NodeIdx : nodes[j].shape = "circle"
                                                  /\ nodes[j].label = StartLabel}}
EndIds == {nodes[k].id : k \in {j \in NodeIdx : nodes[j].shape = "circle"
                                                /\ nodes[j].label = EndLabel}}
DecisionIds == {nodes[k].id : k \in {j \in NodeIdx : nodes[j].shape = "decision"}}
StatementIdx == {k \in NodeIdx : nodes[k].shape \in {"rect", "io"}}

\* the ids the call's counter handed out (get_id / new_id)
AllocatedIds == {<<IF Lang = "python" THEN "n" ELSE "N", k>> : k \in 1..node_counter}

OutEdges(id) == {k \in EdgeIdx : edges[k].from = id}
InEdges(id) == {k \in EdgeIdx : edges[k].to = id}

LabelOf(id) == nodes[CHOOSE k \in NodeIdx : nodes[k].id = id].label
ShapeOf(id) == nodes[CHOOSE k \in NodeIdx : nodes[k].id = id].shape

\* the ids reachable from the ids in S along edges that avoid the id cut
RECURSIVE ReachAvoiding(_, _)
ReachAvoiding(S, cut) ==
    LET more == {edges[k].to : k \in {j \in EdgeIdx : edges[j].from \in S}} \ (S \cup {cut})
    IN  IF more = {} THEN S ELSE ReachAvoiding(S \cup more, cut)

Reachable == ReachAvoiding(StartIds, None)

\* b dominates a: a is reachable from Start, but not without passing b
Dominates(b, a) ==
    /\ a \in Reachable
    /\ (a = b \/ a \notin ReachAvoiding(StartIds \ {b}, b))

\* an edge that closes a cycle: its target dominates its source
BackEdges == {k \in EdgeIdx : Dominates(edges[k].to, edges[k].from)}

\* -------------------------------------------------- the input's constructs
\* every node of a control tree, at every nesting level, in source order
RECURSIVE PyFlatten(_), PyFlattenCases(_), CFlatten(_), CFlattenCases(_), JFlatten(_),
          JFlattenClauses(_)
PyFlatten(seq) ==
    IF seq = <<>> THEN <<>>
    ELSE <<Head(seq)>> \o PyFlatten(Head(seq).body) \o PyFlatten(Head(seq).orelse)
         \o PyFlattenCases(Head(seq).cases) \o PyFlatten(Tail(seq))

PyFlattenCases(cases) ==
    IF cases = <<>> THEN <<>>
    ELSE PyFlatten(Head(cases).body) \o PyFlattenCases(Tail(cases))

CFlatten(seq) ==
    IF seq = <<>> THEN <<>>
    ELSE <<Head(seq)>> \o CFlatten(Head(seq).then) \o CFlatten(Head(seq).els)
         \o CFlatten(Head(seq).body) \o CFlattenCases(Head(seq).cases) \o CFlatten(Tail(seq))

CFlattenCases(cases) ==
    IF cases = <<>> THEN <<>>
    ELSE CFlatten(Head(cases).body) \o CFlattenCases(Tail(cases))

JFlatten(seq) ==
    IF seq = <<>> THEN <<>>
    ELSE <<Head(seq)>> \o JFlattenClauses(Head(seq).clauses) \o JFlatten(Head(seq).els)
         \o JFlatten(Head(seq).body) \o JFlatten(Tail(seq))

JFlattenClauses(clauses) ==
    IF clauses = <<>> THEN <<>>
    ELSE JFlatten(Head(clauses).block) \o JFlattenClauses(Tail(clauses))

\* what a tree node is, whatever the family: "stmt", "if", "loop" (for,
\* while), "do" (post-test loop) or "switch" (switch, match)
KindOf(n) ==
    IF Lang = "python"
    THEN CASE n.cls = "If" -> "if"
           [] n.cls \in {"While", "For"} -> "loop"
           [] n.cls = "Match" -> "switch"
           [] OTHER -> "stmt"
    ELSE CASE n.type \in {"if", "if_chain"} -> "if"
           [] n.type \in {"for", "while"} -> "loop"
           [] n.type \in {"do", "do_while"} -> "do"
           [] n.type = "switch" -> "switch"
           [] OTHER -> "stmt"

Flat(seq) ==
    IF Lang = "python" THEN PyFlatten(seq)
    ELSE IF Lang = "c" THEN CFlatten(seq) ELSE JFlatten(seq)

AllNodes == Flat(code.tree)
OfKind(kinds) == {k \in 1..Len(AllNodes) : KindOf(AllNodes[k]) \in kinds}

\* the number of conditions an if construct tests: a Java chain has one per clause
RECURSIVE SumOver(_, _)
SumOver(S, f) ==
    IF S = {} THEN 0
    ELSE LET x == CHOOSE y \in S : TRUE IN f[x] + SumOver(S \ {x}, f)

NumIfs ==
    SumOver(OfKind({"if"}),
            [k \in 1..Len(AllNodes) |->
                IF Lang = "java" THEN Len(AllNodes[k].clauses) ELSE 1])
NumPreTestLoops == Cardinality(OfKind({"loop"}))
NumLoops == Cardinality(OfKind({"loop", "do"}))
NumSwitchesWith(n) == Cardinality({k \in OfKind({"switch"}) : Len(AllNodes[k].cases) = n})

\* ------------------------------------------------------------------ claims

\* C1: for every input and every family the dispatcher can select,
\* flowchart_from_input returns a diagram and never raises; an error is
\* reported as a labeled node of the returned diagram.
C1_NeverRaises ==
    /\ pc # "raised"
    /\ (Done /\ Lang = "python" /\ ~code.parses => ErrorId \in DeclaredIds)

\* C2: in every produced diagram, the degraded one included, every node other
\* than the Start terminal has at least one incoming edge.
C2_EveryNodeHasIncomingEdge ==
    Done => \A k \in NodeIdx : nodes[k].id \notin StartIds => InEdges(nodes[k].id) # {}

\* C3: in every produced diagram both endpoints of every edge are ids of
\* nodes the render call created (declared, or handed out by its counter).
C3_EdgesJoinCreatedNodes ==
    Done => \A k \in EdgeIdx :
                /\ edges[k].from \in DeclaredIds \cup AllocatedIds
                /\ edges[k].to \in DeclaredIds \cup AllocatedIds

\* C4: every if, while and for of the input is rendered as a decision node of
\* out-degree exactly 2, and every multi-way branch as a decision node whose
\* out-degree is its number of cases: for every n the diagram has as many
\* decision nodes of out-degree n as the input has constructs that call for one.
DecisionsOfDegree(n) == {d \in DecisionIds : Cardinality(OutEdges(d)) = n}
ExpectedOfDegree(n) ==
    (IF n = 2 THEN NumIfs + NumPreTestLoops ELSE 0) + NumSwitchesWith(n)

C4_DecisionOutDegree ==
    Done /\ (Lang = "python" => code.parses) =>
        \A n \in 0..Len(edges) : Cardinality(DecisionsOfDegree(n)) >= ExpectedOfDegree(n)

\* C5: for every decision node of every produced diagram, the labels of its
\* outgoing edges are pairwise distinct.
C5_DistinctEdgeLabels ==
    Done => \A d \in DecisionIds : \A j, k \in OutEdges(d) :
                j # k => edges[j].label # edges[k].label

\* C6: every loop of the input (for, while, do-while), at any nesting level,
\* has exactly one back-edge in the diagram, into its own decision/entry
\* node: there are as many back-edges as loops, no two into the same node.
C6_OneBackEdgePerLoop ==
    Done /\ (Lang = "python" => code.parses) =>
        /\ Cardinality(BackEdges) = NumLoops
        /\ \A j, k \in BackEdges : j # k => edges[j].to # edges[k].to

\* ------------------------------------------------ statements of the input
IsStmt(n) == KindOf(n) = "stmt"

\* the source text of a statement
TextOf(n) == IF Lang = "python" THEN n.src ELSE IF Lang = "c" THEN n.text ELSE n.code

\* a return statement: the keyword return as the whole leading token
IsReturnStmt(n) ==
    /\ IsStmt(n)
    /\ IF Lang = "python" THEN n.cls = "Return"
       ELSE LET t == Strip(TextOf(n))
            IN  /\ StartsWith(t, return)
                /\ (Len(t) = Len(return) \/ ~IsWordChar(t[Len(return) + 1]))

\* the label the family's renderer writes on the node of a statement
NodeLabelOf(n) ==
    IF Lang = "python" THEN handle_expr(n).label
    ELSE IF Lang = "c" THEN _clean_label(_label_and_kind(n).label)
    ELSE _safe_label(n.code)

StmtLabels == {NodeLabelOf(AllNodes[k]) : k \in OfKind({"stmt"})}
ReturnLabels == {NodeLabelOf(AllNodes[k]) : k \in {j \in OfKind({"stmt"}) : IsReturnStmt(AllNodes[j])}}

\* the statement lists nested directly in a tree node
RECURSIVE CaseBodies(_)
CaseBodies(cases) ==
    IF cases = <<>> THEN <<>> ELSE <<Head(cases).body>> \o CaseBodies(Tail(cases))

RECURSIVE ClauseBlocks(_)
ClauseBlocks(clauses) ==
    IF clauses = <<>> THEN <<>> ELSE <<Head(clauses).block>> \o ClauseBlocks(Tail(clauses))

Children(n) ==
    IF Lang = "python" THEN <<n.body, n.orelse>> \o CaseBodies(n.cases)
    ELSE IF Lang = "c" THEN <<n.then, n.els, n.body>> \o CaseBodies(n.cases)
    ELSE ClauseBlocks(n.clauses) \o <<n.els, n.body>>

\* the statements that no return precedes, at their own or an outer level
RECURSIVE LiveStmts(_), LiveInAll(_)
LiveStmts(seq) ==
    IF seq = <<>> THEN 0
    ELSE IF IsReturnStmt(Head(seq)) THEN 1
    ELSE (IF IsStmt(Head(seq)) THEN 1 ELSE 0) + LiveInAll(Children(Head(seq)))
         + LiveStmts(Tail(seq))

LiveInAll(seqs) ==
    IF seqs = <<>> THEN 0 ELSE LiveStmts(Head(seqs)) + LiveInAll(Tail(seqs))

\* C7: the node of every return statement has an edge directly into End, and
\* no node is emitted for a statement that follows a return at the same or a
\* deeper nesting level: the statement nodes are no more than the statements
\* that no return precedes.
C7_ReturnEndsTheFlow ==
    Done /\ (Lang = "python" => code.parses) =>
        /\ \A k \in StatementIdx :
               nodes[k].label \in ReturnLabels =>
                   \E e \in OutEdges(nodes[k].id) : edges[e].to \in EndIds
        /\ Cardinality({k \in StatementIdx : nodes[k].label \in StmtLabels})
               <= LiveStmts(code.tree)

\* the top-level constructs are statements and ifs over plain statements,
\* and nothing starts with the letters of return
StartsLikeReturn(n) == IsStmt(n) /\ StartsWith(Strip(TextOf(n)), return)

PlainIfProgram ==
    /\ \A k \in 1..Len(AllNodes) :
           KindOf(AllNodes[k]) \in {"stmt", "if"} /\ ~StartsLikeReturn(AllNodes[k])
    /\ Cardinality(OfKind({"if"})) =
           Cardinality({k \in 1..Len(code.tree) : KindOf(code.tree[k]) = "if"})

\* the synthetic merge nodes of a diagram: Python names them only in edges,
\* C labels them Merge, Java draws them as blank circles
MergeIds ==
    IF Lang = "python" THEN AllocatedIds \ DeclaredIds
    ELSE IF Lang = "c"
    THEN {nodes[k].id : k \in {j \in NodeIdx : nodes[j].label = MergeLabel}}
    ELSE {nodes[k].id : k \in {j \in NodeIdx : nodes[j].shape = "circle"
                                                /\ nodes[j].label = Blank}}

EdgesIntoEnd == {k \in EdgeIdx : edges[k].to \in EndIds}

\* C8: an if that is the last construct of its sequence connects the end of
\* each branch directly to End and creates no merge node; an if that other
\* constructs follow creates exactly one merge node, every branch end
\* connects into it and the next sibling is connected from it.
C8_MergeOnlyBeforeSiblings ==
    Done /\ (Lang = "python" => code.parses) /\ PlainIfProgram =>
        LET n == Len(code.tree)
            inner == {k \in 1..n : KindOf(code.tree[k]) = "if" /\ k < n}
        IN  /\ Cardinality(MergeIds) = Cardinality(inner)
            /\ \A m \in MergeIds : Cardinality(InEdges(m)) >= 2 /\ OutEdges(m) # {}
            /\ (n > 0 /\ KindOf(code.tree[n]) = "if" => Cardinality(EdgesIntoEnd) >= 2)

\* the nodes of the diagram other than the terminals, in emission order
IsContent(nd) == nd.shape # "circle"
ContentNodes == SelectSeq(nodes, IsContent)

\* C9: n statements with no control construct and no return give the chain
\* Start -> s1 -> ... -> sn -> End: one node per statement in source order
\* and exactly n + 1 edges, one per consecutive pair.
C9_StraightLineChain ==
    LET n == Len(code.tree)
        chain == [k \in 0..(n + 1) |->
                     IF k = 0 THEN CHOOSE x \in StartIds : TRUE
                     ELSE IF k = n + 1 THEN CHOOSE x \in EndIds : TRUE
                     ELSE ContentNodes[k].id]
    IN  (/\ Done
         /\ (Lang = "python" => code.parses)
         /\ \A k \in 1..n : IsStmt(code.tree[k]) /\ ~IsReturnStmt(code.tree[k]))
        => /\ Len(ContentNodes) = n
           /\ Len(edges) = n + 1
           /\ \A k \in 1..n : ContentNodes[k].label = NodeLabelOf(code.tree[k])
           /\ \A k \in 1..(n + 1) : edges[k].from = chain[k - 1] /\ edges[k].to = chain[k]

\* C10: a statement whose rendered label equals the label rendered
\* immediately before it gets no node: no edge of a diagram joins two
\* statement nodes that carry the same label.
C10_NoRepeatedLabel ==
    Done => \A e \in EdgeIdx :
                (/\ edges[e].from # edges[e].to
                 /\ edges[e].from \in {nodes[k].id : k \in StatementIdx}
                 /\ edges[e].to \in {nodes[k].id : k \in StatementIdx})
                => LabelOf(edges[e].from) # LabelOf(edges[e].to)

\* the only construct of the input is one multi-way branch at the top level,
\* among statements that do not start with the letters of return
SwitchProgram ==
    /\ Cardinality(OfKind({"switch"})) = 1
    /\ \E k \in 1..Len(code.tree) : KindOf(code.tree[k]) = "switch"
    /\ \A k \in 1..Len(AllNodes) :
           KindOf(AllNodes[k]) \in {"stmt", "switch"} /\ ~StartsLikeReturn(AllNodes[k])

\* C13: a multi-way branch is one decision node with one outgoing edge per
\* case (default included), and the tails of all cases converge into a single
\* merge node that carries the flow on, also when the branch is the last
\* construct of the input.
C13_MultiWayBranch ==
    Done /\ (Lang = "python" => code.parses) /\ SwitchProgram =>
        LET c == Len(AllNodes[CHOOSE k \in OfKind({"switch"}) : TRUE].cases)
        IN  /\ Cardinality(DecisionIds) = 1
            /\ \A d \in DecisionIds : Cardinality(OutEdges(d)) = c
            /\ Cardinality(MergeIds) = 1
            /\ \A m \in MergeIds :
                   Cardinality(InEdges(m)) = c /\ Cardinality(OutEdges(m)) = 1

\* =========================================================== the readers

\* the number of characters c of s at the indices a..b (counted from 0)
Count(s, c, a, b) == Cardinality({k \in a..b : s[k + 1] = c})

\* the indices after the opener at index at where as many closers of its type as
\* openers have been met: the least of them is the opener's matching closer
Matches(s, at) ==
    {j \in (at + 1)..(Len(s) - 1) :
        /\ s[j + 1] = CloserOf(s[at + 1])
        /\ Count(s, s[at + 1], at, j) = Count(s, CloserOf(s[at + 1]), at, j)}

MatchingCloser(s, at) == CHOOSE j \in Matches(s, at) : \A k \in Matches(s, at) : j <= k

\* a ';' at j is inside parentheses when some '(' met since the index at is
\* still open
InParens(s, at, j) ==
    \E a \in at..(j - 1) : Count(s, "(", a, j - 1) > Count(s, ")", a, j - 1)

\* C14: _read_block called at an opening delimiter that has a matching closer
\* of the same type returns the text strictly between the two and the index
\* just past the closer.
C14_ReadBlockMatched ==
    pc = "returned" /\ code.fn = "_read_block" /\ Matches(code.text, code.at) # {} =>
        result = Read(Slice(code.text, code.at + 1, MatchingCloser(code.text, code.at)),
                      MatchingCloser(code.text, code.at) + 1)

\* a block holding a nested pair of the same type was read
C14_Witness ==
    /\ pc = "returned"
    /\ code.fn = "_read_block"
    /\ Matches(code.text, code.at) # {}
    /\ \E k \in 1..Len(result.text) : result.text[k] = code.text[code.at + 1]

\* C15: on unbalanced input the readers return the rest of the text and the
\* index at its end: _read_block at an opener without a matching closer,
\* _read_stmt when no ';' stands outside parentheses; and the builder goes on
\* with that partial result, to the end of the text, with a node for it.
C15_UnbalancedReadsToEnd ==
    /\ pc = "returned" /\ code.fn = "_read_block" /\ Matches(code.text, code.at) = {} =>
           result = Read(Slice(code.text, code.at + 1, Len(code.text)), Len(code.text))
    /\ pc = "returned" /\ code.fn = "_read_stmt"
         /\ (\A j \in code.at..(Len(code.text) - 1) :
                code.text[j + 1] = ";" => InParens(code.text, code.at, j)) =>
           result = Read(Strip(Slice(code.text, code.at, Len(code.text))), Len(code.text))
    /\ pc = "parsed" /\ code.fn = "c" =>
           /\ i = Len(Strip(code.text))
           /\ Strip(code.text) # <<>> => ast # <<>>
    /\ pc = "parsed" /\ code.fn = "c" /\ code.text = CUnbalanced =>
           /\ Len(ast) = 1
           /\ ast[1].type = "if"
           /\ ast[1].text = Slice(CUnbalanced, 4, Len(CUnbalanced))

\* the builder has finished the text with the unclosed parenthesis
C15_Witness ==
    /\ pc = "parsed"
    /\ code.fn = "c" /\ code.text = CUnbalanced
    /\ ast # <<>>

\* C12: every scanning-loop iteration of a builder moves the scan position
\* forward, never beyond the end of its input, and every recursive call made
\* is on a strictly shorter text (C) or starts at a later line (Java).
C12_ScanAdvances ==
    [][(pc \in {"c_scan", "java_scan"}) =>
           ((pc' = pc => i' > i)
            /\ i' <= Len(IF pc = "c_scan" THEN Strip(code.text) ELSE code.text) + 2
            /\ \A c \in result' : IF pc = "c_scan" THEN c[2] < c[1] ELSE c[2] > c[1])]_vars

\* a builder in the middle of its input, after a recursive call
C12_Witness ==
    /\ pc \in {"c_scan", "java_scan"}
    /\ i > 0
    /\ i < Len(code.text)
    /\ result # {}

\* =================================================== the control-tree builders

\* the keyword that introduces a construct of the given node type
KeywordOf(type) ==
    CASE type \in {"if", "if_chain"} -> <<"i", "f">>
      [] type = "for" -> <<"f", "o", "r">>
      [] type = "while" -> <<"w", "h", "i", "l", "e">>
      [] type \in {"do", "do_while"} -> <<"d", "o">>
      [] type = "switch" -> <<"s", "w", "i", "t", "c", "h">>

\* C16: a construct is recognised only where its keyword stands as a whole
\* word, and a statement whose first identifier merely begins with a keyword
\* is one generic statement: every construct node of the result has its keyword
\* as a word of the text (C) or as the first word of a line (Java), and every
\* C statement node starts at the beginning of a token of the text.
C16_KeywordBoundary ==
    pc = "parsed" /\ code.fn \in {"c", "java"} =>
        \A k \in 1..Len(ast) :
            IF ast[k].type = "stmt"
            THEN code.fn = "c" =>
                     \E p \in 0..Len(code.text) :
                         /\ StartsWithAt(Strip(code.text), ast[k].text, p)
                         /\ (p = 0 \/ ~IsWordChar(Strip(code.text)[p]))
            ELSE IF code.fn = "c"
            THEN \E p \in 0..Len(code.text) :
                     WordAt(Strip(code.text), KeywordOf(ast[k].type), p)
            ELSE \E l \in 1..Len(code.text) :
                     WordAt(code.text[l], KeywordOf(ast[k].type), 0)

\* the conditions of a C conditional and of the conditionals that are, alone,
\* its else body
RECURSIVE CChainConds(_)
CChainConds(node) ==
    <<node.text>>
    \o (IF node.hasElse /\ Len(node.els) = 1 /\ node.els[1].type = "if"
        THEN CChainConds(node.els[1]) ELSE <<>>)

\* C17: an if / else-if / else chain is parsed into one conditional node that
\* holds every clause's condition in source order and the else body, and no
\* part of the chain becomes a sibling statement.
C17_ElseIfChain ==
    /\ pc = "parsed" /\ code.fn = "c" /\ code.text = CElseIfChain =>
           /\ Len(ast) = 1
           /\ ast[1].type = "if"
           /\ CChainConds(ast[1]) = <<<<"a">>, <<"b">>>>
    /\ pc = "parsed" /\ code.fn = "java" /\ code.text = JElseIfChain =>
           /\ Len(ast) = 1
           /\ ast[1].type = "if_chain"
           /\ [k \in 1..Len(ast[1].clauses) |-> ast[1].clauses[k].cond] = <<<<"a">>, <<"b">>>>
           /\ ast[1].hasElse
           /\ ast[1].els = <<JStmtNode(<<"z", " ", "=", " ", "3", ";">>)>>

\* C18: a conditional or loop body written without braces is a one-element
\* sequence, and a construct written as that body is parsed as a construct.
C18_SingleStatementBody ==
    pc = "parsed" /\ code.fn = "c" /\ code.text \in {CNestedLoopBody, CNestedIfBody} =>
        /\ Len(ast) = 1
        /\ Len(IF ast[1].type = "if" THEN ast[1].then ELSE ast[1].body) = 1
        /\ (IF ast[1].type = "if" THEN ast[1].then ELSE ast[1].body)[1].type
               \in {"if", "while"}

\* C19: a switch body is split only at the case and default labels of its own
\* nesting level, and a case holds the statements up to, not including, its
\* first break.
C19_SwitchCases ==
    /\ pc = "parsed" /\ (\/ code.fn = "c" /\ code.text = CNestedSwitch
                         \/ code.fn = "java" /\ code.text = JNestedSwitch) =>
           /\ Len(ast) = 1
           /\ ast[1].type = "switch"
           /\ [k \in 1..Len(ast[1].cases) |-> ast[1].cases[k].label]
                  = <<<<"c", "a", "s", "e", " ", "1">>, <<"d", "e", "f", "a", "u", "l", "t">>>>
    /\ pc = "parsed" /\ code.fn = "c" /\ code.text = CSwitchBreak =>
           /\ Len(ast) = 1
           /\ ast[1].cases[1].body = <<CStmtNode(<<"x", " ", "=", " ", "1", ";">>)>>
    /\ pc = "parsed" /\ code.fn = "java" /\ code.text = JSwitchBreak =>
           /\ Len(ast) = 1
           /\ ast[1].cases[1].body = <<<<"x", " ", "=", " ", "1", ";">>>>

\* C20: the label of a statement that no special case matches is at most 50
\* characters long in every family, and ends with an ellipsis when the
\* statement is longer than that.
C20_FallbackLabelLength ==
    pc = "returned" /\ code.fn \in {"python_label", "c_label", "java_label"} =>
        /\ Len(result) <= PyMaxLabel
        /\ Len(RStripChar(code.text, ";")) > PyMaxLabel =>
               SubSeq(result, Len(result) - 2, Len(result)) = Ellipsis

\* ====================================================== concurrent callers

\* the diagram a call returns when no other call runs
RECURSIVE RunAlone(_)
RunAlone(S) ==
    IF S.L.pc = "done" THEN Returned(S.R) ELSE RunAlone(RenderStep(S.L, S.R))

\* C11: of two render calls whose steps interleave, each returns exactly the
\* diagram it returns when run alone.
C11_CallsIndependent ==
    \A c \in Calls :
        pc[c] = "done" => result[c] = RunAlone(Stepped(Entered(code[c]), EmptyDiagram))

\* both calls have drawn nodes and neither has returned: their steps interleave
C11_Witness ==
    \A c \in Calls :
        /\ pc[c] \in {"py_loop", "c_loop"}
        /\ node_counter[c] > 0

\* ============================================================ the terminals

\* C21: the End terminal is never the source of an edge of a diagram, also
\* when the last top-level construct is an if with else-if clauses.
C21_EndHasNoOutEdge ==
    Done => \A e \in EdgeIdx : edges[e].from \notin EndIds /\ edges[e].from # End

\* the top-level statements up to the k-th neither are nor look like a return
NoReturnUpTo(k) == \A j \in 1..k : ~StartsLikeReturn(code.tree[j])

\* C22: in the C renderer the statement that follows an if construct is
\* always rendered, whatever was rendered before the if: an edge leads from
\* the if's merge node to a node with the statement's label.
C22_RenderedAfterIf ==
    Done /\ Lang = "c" =>
        \A k \in 1..(Len(code.tree) - 1) :
            (/\ KindOf(code.tree[k]) = "if"
             /\ IsStmt(code.tree[k + 1])
             /\ NodeLabelOf(code.tree[k + 1]) # <<>>
             /\ NoReturnUpTo(k + 1))
            => \E e \in EdgeIdx :
                   /\ edges[e].from \in MergeIds
                   /\ edges[e].to \in DeclaredIds
                   /\ LabelOf(edges[e].to) = NodeLabelOf(code.tree[k + 1])

\* C23: in the C renderer only a statement whose leading token is the keyword
\* return is labelled Return; a top-level statement that begins with the
\* letters of return inside a longer identifier is an ordinary node, and the
\* statements after it are rendered: the last one has its node.
C23_ReturnIsAKeyword ==
    Done /\ Lang = "c" =>
        /\ (\A k \in OfKind({"stmt"}) : ~IsReturnStmt(AllNodes[k]))
               => \A k \in StatementIdx : nodes[k].label # Return
        /\ (/\ code.tree # <<>>
            /\ \A k \in 1..Len(code.tree) :
                   IsStmt(code.tree[k]) /\ ~IsReturnStmt(code.tree[k])
            /\ \E k \in 1..(Len(code.tree) - 1) : StartsLikeReturn(code.tree[k])
            /\ ~StartsLikeReturn(code.tree[Len(code.tree)]))
               => \E k \in StatementIdx :
                      nodes[k].label = NodeLabelOf(code.tree[Len(code.tree)])

====
